---- MODULE Spec2Model ----
(***************************************************************************)
(* dxf2elmt: the entity translation engine.                                *)
(*                                                                         *)
(*   src/src/qelmt/dynamictext.rs  normalize_mtext, extract_mtext_format,  *)
(*                                 DTextBuilder::build, the XML emission    *)
(*                                 and ScaleEntity of DynamicText           *)
(*   src/src/lib.rs                convert_dxf_file, write_text_log         *)
(*                                                                         *)
(* A Rust &str / String is a sequence of Unicode scalar values (numbers);   *)
(* as_bytes() is its UTF-8 encoding, a sequence of numbers 0..255.  Cursors *)
(* are 0-based as in the source: the byte at cursor i is bytes[i + 1].      *)
(***************************************************************************)
EXTENDS Integers, Sequences, FiniteSets, TLC

\* ------------------------------------------------------------------ bounds

\* Longest input string enumerated exhaustively for the escape normalizer.
MaxLen == 4

\* ------------------------------------------------------------- characters

\* The characters the scanners compare against, by code point.
Ch ==
    [ bslash |-> 92, semi |-> 59, lbrace |-> 123, rbrace |-> 125, P |-> 80,
      tilde |-> 126, nl |-> 10, sp |-> 32, dash |-> 45, under |-> 95,
      pipe |-> 124, dot |-> 46, plus |-> 43, tab |-> 9, cr |-> 13,
      f |-> 102, b |-> 98, i |-> 105, c |-> 99, p |-> 112 ]

\* All sequences over A of length at most n.
Strs(A, n) == UNION { [1..k -> A] : k \in 0..n }

\* &str::as_bytes(): the UTF-8 encoding of a sequence of scalar values.
RECURSIVE Utf8(_)
Utf8(s) ==
    IF s = <<>> THEN <<>>
    ELSE LET c == Head(s) IN
         (IF c < 128 THEN <<c>>
          ELSE IF c < 2048 THEN <<192 + (c \div 64), 128 + (c % 64)>>
          ELSE IF c < 65536 THEN
              <<224 + (c \div 4096), 128 + ((c \div 64) % 64), 128 + (c % 64)>>
          ELSE <<240 + (c \div 262144), 128 + ((c \div 4096) % 64),
                 128 + ((c \div 64) % 64), 128 + (c % 64)>>)
         \o Utf8(Tail(s))

\* `bytes[i] as char`: a u8 becomes the scalar value of the same number.
AsChar(b) == b

\* char::is_alphabetic on the scalar values a u8 converts to (U+0000..U+00FF).
IsAlphabetic(c) ==
    \/ c \in 65..90
    \/ c \in 97..122
    \/ c \in {170, 181, 186}
    \/ c \in 192..214
    \/ c \in 216..246
    \/ c \in 248..255

\* u8::is_ascii_alphanumeric.
IsAsciiAlphanumeric(b) == b \in 48..57 \/ b \in 65..90 \/ b \in 97..122

\* ------------------------------------------------- normalize_mtext: scanner

\* input.find(';'): the byte offset of the first ';'; None is written -1.
FindSemicolon(bs) ==
    IF \E k \in 1..Len(bs) : bs[k] = Ch.semi
    THEN (CHOOSE k \in 1..Len(bs) :
              bs[k] = Ch.semi /\ \A j \in 1..(k - 1) : bs[j] # Ch.semi) - 1
    ELSE -1

\* Mutant: the ';' itself is kept (pos instead of pos + 1).
TextStartKeepsSemicolon(bs) ==
    LET first_semicolon == FindSemicolon(bs) IN
    IF first_semicolon # -1 THEN first_semicolon ELSE 0

\* Mutant: one byte is skipped whether or not a ';' was found.
TextStartAlwaysSkips(bs) == FindSemicolon(bs) + 1 + (IF FindSemicolon(bs) = -1 THEN 1 ELSE 0)

\* text_start: one past the first ';', or 0 when there is none.
TextStart(bs) ==
    LET first_semicolon == FindSemicolon(bs) IN
    IF first_semicolon # -1 THEN first_semicolon + 1 ELSE 0

\* text_part = &input[text_start..], as bytes.
TextPart(s) ==
    LET bs == Utf8(s) IN SubSeq(bs, TextStart(bs) + 1, Len(bs))

\* A byte that continues a candidate formatting code.
IsCodeByte(b) ==
    \/ IsAsciiAlphanumeric(b)
    \/ b \in {Ch.dash, Ch.under, Ch.pipe, Ch.sp, Ch.dot}

\* The inner while loop of a candidate formatting code, entered with the cursor
\* just past the backslash and the letter.  It leaves by the ';' (consumed), by a
\* byte that is no code byte (not consumed), or by the end of the input.
RECURSIVE CodeRun(_, _)
CodeRun(bs, k) ==
    IF k >= Len(bs) THEN [i |-> k, end |-> "eof"]
    ELSE IF bs[k + 1] = Ch.semi THEN [i |-> k + 1, end |-> "semicolon"]
    ELSE IF IsCodeByte(bs[k + 1]) THEN CodeRun(bs, k + 1)
    ELSE [i |-> k, end |-> "other"]

\* The bytes bs[a..b) pushed one by one as chars.
Pushed(bs, a, b) == [k \in 1..(b - a) |-> AsChar(bs[a + k])]

\* Mutant: the byte that ended the run is restored with the span.
CodeOutputWithStopper(bs, o, start, run) ==
    IF run.end = "other" THEN o \o Pushed(bs, start, run.i + 1) ELSE o

\* What the formatting-code branch does with the output once its run has ended:
\* only the branch taken on a byte that is no code byte restores the span.
CodeOutput(bs, o, start, run) ==
    IF run.end = "other" THEN o \o Pushed(bs, start, run.i) ELSE o

\* Mutant: the letter test comes before the \P and \~ tests, so \P opens a
\* formatting code.
ScanStepLetterFirst(bs, k, o) ==
    LET b == bs[k + 1]
        more == k + 1 < Len(bs)
        n == IF more THEN bs[k + 2] ELSE -1
    IN
    IF b = Ch.lbrace \/ b = Ch.rbrace THEN [i |-> k + 1, out |-> o, rule |-> "brace"]
    ELSE IF b # Ch.bslash THEN
        [i |-> k + 1, out |-> Append(o, AsChar(b)), rule |-> "plain"]
    ELSE IF more /\ n = Ch.bslash THEN
        [i |-> k + 2, out |-> Append(o, Ch.bslash), rule |-> "escaped"]
    ELSE IF more /\ IsAlphabetic(AsChar(n)) THEN
        LET run == CodeRun(bs, k + 2) IN
        [i |-> run.i, out |-> CodeOutput(bs, o, k, run), rule |-> "code"]
    ELSE IF more /\ AsChar(n) = Ch.P THEN
        [i |-> k + 2, out |-> Append(o, Ch.nl), rule |-> "newline"]
    ELSE IF more /\ AsChar(n) = Ch.tilde THEN
        [i |-> k + 2, out |-> Append(o, Ch.sp), rule |-> "space"]
    ELSE [i |-> k + 1, out |-> Append(o, Ch.bslash), rule |-> "lone"]

\* Mutant: the branch of the lone backslash forgets its i += 1.
ScanStepLoneStays(bs, k, o) ==
    LET b == bs[k + 1]
        more == k + 1 < Len(bs)
        n == IF more THEN bs[k + 2] ELSE -1
    IN
    IF b = Ch.lbrace \/ b = Ch.rbrace THEN [i |-> k + 1, out |-> o, rule |-> "brace"]
    ELSE IF b # Ch.bslash THEN
        [i |-> k + 1, out |-> Append(o, AsChar(b)), rule |-> "plain"]
    ELSE IF more /\ n = Ch.bslash THEN
        [i |-> k + 2, out |-> Append(o, Ch.bslash), rule |-> "escaped"]
    ELSE IF more /\ AsChar(n) = Ch.P THEN
        [i |-> k + 2, out |-> Append(o, Ch.nl), rule |-> "newline"]
    ELSE IF more /\ AsChar(n) = Ch.tilde THEN
        [i |-> k + 2, out |-> Append(o, Ch.sp), rule |-> "space"]
    ELSE IF more /\ IsAlphabetic(AsChar(n)) THEN
        LET run == CodeRun(bs, k + 2) IN
        [i |-> run.i, out |-> CodeOutput(bs, o, k, run), rule |-> "code"]
    ELSE [i |-> k, out |-> Append(o, Ch.bslash), rule |-> "lone"]

\* One iteration of the outer while loop at cursor k (k < Len(bs)) with output o:
\* the cursor and output it leaves, and the branch it took.
ScanStep(bs, k, o) ==
    LET b == bs[k + 1]
        more == k + 1 < Len(bs)
        n == IF more THEN bs[k + 2] ELSE -1
    IN
    IF b = Ch.lbrace \/ b = Ch.rbrace THEN [i |-> k + 1, out |-> o, rule |-> "brace"]
    ELSE IF b # Ch.bslash THEN
        [i |-> k + 1, out |-> Append(o, AsChar(b)), rule |-> "plain"]
    ELSE IF more /\ n = Ch.bslash THEN
        [i |-> k + 2, out |-> Append(o, Ch.bslash), rule |-> "escaped"]
    ELSE IF more /\ AsChar(n) = Ch.P THEN
        [i |-> k + 2, out |-> Append(o, Ch.nl), rule |-> "newline"]
    ELSE IF more /\ AsChar(n) = Ch.tilde THEN
        [i |-> k + 2, out |-> Append(o, Ch.sp), rule |-> "space"]
    ELSE IF more /\ IsAlphabetic(AsChar(n)) THEN
        LET run == CodeRun(bs, k + 2) IN
        [i |-> run.i, out |-> CodeOutput(bs, o, k, run), rule |-> "code"]
    ELSE [i |-> k + 1, out |-> Append(o, Ch.bslash), rule |-> "lone"]

\* The indices (from 0) at which that iteration reads bytes: i, then i + 1
\* behind the tests i + 1 < bytes.len() of lines 50, 57 and 76 when bytes[i] is
\* a backslash, then those the inner loop reads (line 84): every index of the
\* run, and the index of the byte that ended it unless the input ended first.
ScanReads(bs, k) ==
    LET b == bs[k + 1]
        more == k + 1 < Len(bs)
    IN
    IF b = Ch.lbrace \/ b = Ch.rbrace \/ b # Ch.bslash THEN {k}
    ELSE IF ~more THEN {k}
    ELSE IF ScanStep(bs, k, <<>>).rule # "code" THEN {k, k + 1}
    ELSE LET run == CodeRun(bs, k + 2) IN
         {k, k + 1} \cup
         (CASE run.end = "eof" -> (k + 2)..(run.i - 1)
            [] run.end = "semicolon" -> (k + 2)..(run.i - 1)
            [] run.end = "other" -> (k + 2)..run.i)

\* The outer while loop run to its end.
RECURSIVE ScanLoop(_, _, _)
ScanLoop(bs, k, o) ==
    IF k < Len(bs)
    THEN LET s == ScanStep(bs, k, o) IN ScanLoop(bs, s.i, s.out)
    ELSE o

\* normalize_mtext(input) as a function of its argument.
normalize_mtext(s) == ScanLoop(TextPart(s), 0, <<>>)

\* -------------------------------------------- extract_mtext_format: parser

\* Option<T>: None is the empty tuple, Some(v) the one-element tuple.
None == <<>>
Some(v) == <<v>>

\* String::from / to_string on a slice of a &str: the scalar values its bytes encode.
RECURSIVE Utf8Decode(_)
Utf8Decode(bs) ==
    IF bs = <<>> THEN <<>>
    ELSE IF bs[1] < 128 THEN <<bs[1]>> \o Utf8Decode(Tail(bs))
    ELSE IF bs[1] < 224 THEN
        <<(bs[1] - 192) * 64 + (bs[2] - 128)>> \o Utf8Decode(SubSeq(bs, 3, Len(bs)))
    ELSE IF bs[1] < 240 THEN
        <<(bs[1] - 224) * 4096 + (bs[2] - 128) * 64 + (bs[3] - 128)>>
        \o Utf8Decode(SubSeq(bs, 4, Len(bs)))
    ELSE <<(bs[1] - 240) * 262144 + (bs[2] - 128) * 4096 + (bs[3] - 128) * 64
           + (bs[4] - 128)>>
         \o Utf8Decode(SubSeq(bs, 5, Len(bs)))

\* MTextFormatInfo::default().
DefaultInfo ==
    [family |-> None, bold |-> FALSE, italic |-> FALSE, point_size |-> None,
     color_index |-> None]

\* The inner while loop: the cursor moves to the next ';' or to the end.
RECURSIVE BlockEnd(_, _)
BlockEnd(bs, k) ==
    IF k < Len(bs) /\ bs[k + 1] # Ch.semi THEN BlockEnd(bs, k + 1) ELSE k

\* str::split(c): the fields between the separators, at least one.
RECURSIVE Split(_, _)
Split(bs, c) ==
    IF \E k \in 1..Len(bs) : bs[k] = c
    THEN LET k == CHOOSE k \in 1..Len(bs) : bs[k] = c /\ \A j \in 1..(k - 1) : bs[j] # c
         IN <<SubSeq(bs, 1, k - 1)>> \o Split(SubSeq(bs, k + 1, Len(bs)), c)
    ELSE <<bs>>

\* The characters with char::is_whitespace, the Unicode White_Space property:
\* U+0009..U+000D, U+0020, U+0085, U+00A0, U+1680, U+2000..U+200A, U+2028,
\* U+2029, U+202F, U+205F and U+3000.
Whitespace ==
    (9..13) \cup {32, 133, 160, 5760} \cup (8192..8202) \cup {8232, 8233, 8239, 8287, 12288}

\* The characters trim_matches(['{', '}']) removes.
Braces == {123, 125}

\* str::trim_start_matches / trim_end_matches on the characters of a string:
\* the characters of the set are dropped from that end, whole characters only.
RECURSIVE TrimStart(_, _)
TrimStart(cs, set) ==
    IF cs # <<>> /\ Head(cs) \in set THEN TrimStart(Tail(cs), set) ELSE cs

RECURSIVE TrimEnd(_, _)
TrimEnd(cs, set) ==
    IF cs # <<>> /\ cs[Len(cs)] \in set
    THEN TrimEnd(SubSeq(cs, 1, Len(cs) - 1), set) ELSE cs

\* The one element of a set of one element.  { F(v) : v \in {e} } is the set of
\* F at the value of e, with e worked out once however often F uses v.
Only(S) == CHOOSE v \in S : TRUE

\* trim_matches on a slice given by its bytes: the slice is read as characters,
\* the characters of the set go from both ends, and what stays is again a slice
\* of bytes.
TrimMatches(bs, set) ==
    Only({ Utf8(ended) :
             ended \in { TrimEnd(started, set) :
                           started \in { TrimStart(cs, set) : cs \in {Utf8Decode(bs)} } } })

\* str::trim: the characters with char::is_whitespace go.
Trim(bs) == TrimMatches(bs, Whitespace)

\* str::trim_matches(['{', '}']).
TrimBraces(bs) == TrimMatches(bs, Braces)

IsDigit(b) == b \in 48..57

\* The number a string of decimal digits denotes.
RECURSIVE DigitsValue(_)
DigitsValue(ds) ==
    IF ds = <<>> THEN 0 ELSE 10 * DigitsValue(SubSeq(ds, 1, Len(ds) - 1)) + (ds[Len(ds)] - 48)

\* str::parse::<i32>(): an optional sign, then one digit or more, within 32 bits.
ParseI32(bs) ==
    LET signed == bs # <<>> /\ bs[1] \in {Ch.plus, Ch.dash}
        ds == IF signed THEN Tail(bs) ELSE bs
        v == IF signed /\ bs[1] = Ch.dash THEN 0 - DigitsValue(ds) ELSE DigitsValue(ds)
    IN
    IF ds # <<>> /\ (\A k \in 1..Len(ds) : IsDigit(ds[k])) /\ v >= -2147483647 - 1 /\ v <= 2147483647
    THEN Some(v) ELSE None

\* A decimal number num/den, den a power of ten, without trailing zeros.
RECURSIVE Dec(_, _)
Dec(num, den) ==
    IF den > 1 /\ num % 10 = 0 THEN Dec(num \div 10, den \div 10)
    ELSE [num |-> num, den |-> den]

RECURSIVE Pow10(_)
Pow10(n) == IF n = 0 THEN 1 ELSE 10 * Pow10(n - 1)

\* f64 values: a finite one is the exact decimal num/den that Dec gives; the
\* infinities and NaN are the three records below.
F64Inf == [num |-> 1, den |-> 0]
F64NegInf == [num |-> -1, den |-> 0]
F64NaN == [num |-> 0, den |-> 0]

\* u8::to_ascii_lowercase, on every byte of a slice.
AsciiLower(bs) == [k \in 1..Len(bs) |-> IF bs[k] \in 65..90 THEN bs[k] + 32 ELSE bs[k]]

\* The first place of bs holding one of the bytes of set, or Len(bs) + 1.
FirstOf(bs, set) ==
    IF \E k \in 1..Len(bs) : bs[k] \in set
    THEN CHOOSE k \in 1..Len(bs) : bs[k] \in set /\ \A j \in 1..(k - 1) : bs[j] \notin set
    ELSE Len(bs) + 1

\* str::parse::<f64>(): an optional sign, then either digits with at most one
\* '.', one digit at least, and an optional exponent ('e' or 'E', an optional
\* sign, one digit at least), or one of "inf", "infinity", "nan" in any case.
\* The value is exact, so it stands for the f64 nearest to it.
ParseF64(bs) ==
    LET signed == bs # <<>> /\ bs[1] \in {Ch.plus, Ch.dash}
        neg == signed /\ bs[1] = Ch.dash
        m == IF signed THEN Tail(bs) ELSE bs
        word == AsciiLower(m)
        at_e == FirstOf(m, {101, 69})
        mant == SubSeq(m, 1, at_e - 1)
        has_exp == at_e <= Len(m)
        ex == SubSeq(m, at_e + 1, Len(m))
        ex_signed == ex # <<>> /\ ex[1] \in {Ch.plus, Ch.dash}
        ex_digits == IF ex_signed THEN Tail(ex) ELSE ex
        parts == Split(mant, Ch.dot)
        int == parts[1]
        frac == IF Len(parts) = 2 THEN parts[2] ELSE <<>>
        mag == DigitsValue(int \o frac)
        e == IF has_exp THEN DigitsValue(ex_digits) ELSE 0
        up == has_exp /\ ~(ex_signed /\ ex[1] = Ch.dash)
        num == IF up THEN mag * Pow10(e) ELSE mag
        den == IF up THEN Pow10(Len(frac)) ELSE Pow10(Len(frac)) * Pow10(e)
    IN
    IF /\ Len(parts) <= 2
       /\ Len(int) + Len(frac) >= 1
       /\ \A k \in 1..Len(int) : IsDigit(int[k])
       /\ \A k \in 1..Len(frac) : IsDigit(frac[k])
       /\ has_exp => ex_digits # <<>> /\ \A k \in 1..Len(ex_digits) : IsDigit(ex_digits[k])
    THEN Some(Dec(IF neg THEN 0 - num ELSE num, den))
    ELSE IF word \in {<<105, 110, 102>>, <<105, 110, 102, 105, 110, 105, 116, 121>>}
    THEN Some(IF neg THEN F64NegInf ELSE F64Inf)
    ELSE IF word = <<110, 97, 110>> THEN Some(F64NaN)
    ELSE None

\* Lines 147-152: the first field is the family, unless it trims to nothing.
ApplyFamily(info, family_part) ==
    LET set(family) ==
            IF family # <<>> THEN [info EXCEPT !.family = Some(Utf8Decode(family))] ELSE info
    IN Only({ set(family) :
                family \in { TrimBraces(trimmed) : trimmed \in {Trim(family_part)} } })

\* Lines 156-184: one later field.
ApplyField(info, raw_part) ==
    LET int(part, val) ==
            IF part[1] = Ch.b THEN
                IF val # None THEN [info EXCEPT !.bold = (val[1] # 0)] ELSE info
            ELSE IF part[1] = Ch.i THEN
                IF val # None THEN [info EXCEPT !.italic = (val[1] # 0)] ELSE info
            ELSE
                IF val # None THEN [info EXCEPT !.color_index = Some(val[1])] ELSE info
        float(flt) ==
            IF flt # None THEN [info EXCEPT !.point_size = Some(flt[1])] ELSE info
        field(part) ==
            IF part = <<>> THEN info
            ELSE IF part[1] \in {Ch.b, Ch.i, Ch.c} /\ Len(part) >= 2 THEN
                Only({ int(part, val) : val \in {ParseI32(Tail(part))} })
            ELSE IF part[1] = Ch.p /\ Len(part) >= 2 THEN
                Only({ float(flt) : flt \in {ParseF64(Tail(part))} })
            ELSE info
    IN Only({ field(part) : part \in {Trim(raw_part)} })

\* Lines 155-185: the later fields in order, from the k-th on.
RECURSIVE ApplyFields(_, _, _)
ApplyFields(info, parts, k) ==
    IF k > Len(parts) THEN info
    ELSE ApplyFields(ApplyField(info, parts[k]), parts, k + 1)

\* Lines 142-185: the block split on '|' and applied to info.
ParseBlock(info, block) ==
    Only({ ApplyFields(ApplyFamily(info, parts[1]), parts, 2) :
             parts \in {Split(block, Ch.pipe)} })

\* bytes[i] == b'\\' && bytes[i + 1] == b'f'.
IsMarker(bs, k) == bs[k + 1] = Ch.bslash /\ bs[k + 2] = Ch.f

\* Mutant: the break after the first block is missing, so the scan goes on.
ExtractStepNoBreak(bs, k, info) ==
    IF IsMarker(bs, k)
    THEN LET e == BlockEnd(bs, k + 2) IN
         [i |-> e, info |-> ParseBlock(info, SubSeq(bs, k + 3, e)), break |-> FALSE]
    ELSE [i |-> k + 1, info |-> info, break |-> FALSE]

\* One iteration of the outer while loop at cursor k (k + 2 < Len(bs)).
ExtractStep(bs, k, info) ==
    IF IsMarker(bs, k)
    THEN LET e == BlockEnd(bs, k + 2) IN
         [i |-> e, info |-> ParseBlock(info, SubSeq(bs, k + 3, e)), break |-> TRUE]
    ELSE [i |-> k + 1, info |-> info, break |-> FALSE]

\* The indices (from 0) at which that iteration reads bytes: i, i + 1 when
\* bytes[i] is a backslash (line 135), and with a marker those the inner loop
\* reads (line 139): the block, and the ';' behind it when there is one.
ExtractReads(bs, k) ==
    IF bs[k + 1] # Ch.bslash THEN {k}
    ELSE IF ~IsMarker(bs, k) THEN {k, k + 1}
    ELSE LET e == BlockEnd(bs, k + 2) IN
         {k, k + 1} \cup (IF e < Len(bs) THEN (k + 2)..e ELSE (k + 2)..(e - 1))

\* The outer while loop run to its end.
RECURSIVE ExtractLoop(_, _, _)
ExtractLoop(bs, k, info) ==
    IF k + 2 < Len(bs)
    THEN LET s == ExtractStep(bs, k, info) IN
         IF s.break THEN s.info ELSE ExtractLoop(bs, s.i, s.info)
    ELSE info

\* extract_mtext_format(input) as a function of its argument.
extract_mtext_format(s) == ExtractLoop(Utf8(s), 0, DefaultInfo)

\* ------------------------------------------------- DTextBuilder and DynamicText

\* An f64 is written as a whole number of 1/Unit: the inputs drawn below keep
\* every product and quotient the code forms exact at this scale.
Unit == 16000

Abs(v) == IF v < 0 THEN 0 - v ELSE v

\* HexColor values, by how they were made: the crate's own arithmetic is not
\* part of these sources.
HexColorBlack == [ctor |-> "BLACK", arg |-> 0]
HexColorFromU32(n) == [ctor |-> "from_u32", arg |-> n]

\* Lines 408-409 and 463-464: the overflow chunks joined, then the primary text.
RECURSIVE Join(_)
Join(chunks) == IF chunks = <<>> THEN <<>> ELSE Head(chunks) \o Join(Tail(chunks))

RawMText(mtxt) == Join(mtxt.extended_text) \o mtxt.value

\* Lines 377, 410, 423: the text value of each source variant.
BuildValue(e) ==
    CASE e.kind = "Text" -> normalize_mtext(e.value)
      [] e.kind = "MText" -> normalize_mtext(RawMText(e))
      [] e.kind = "Attrib" -> e.value

\* Lines 461-471: the format information of each source variant.
BuildFormatInfo(e) ==
    CASE e.kind = "MText" -> extract_mtext_format(RawMText(e))
      [] e.kind = "Text" -> extract_mtext_format(e.value)
      [] OTHER -> DefaultInfo

\* The f64 of a rotation in degrees.  A value of class "finite" is v / Unit
\* degrees; one of class "big" is v * 2^42 + off degrees (0 < |v| < 2^11 and
\* |off| < 2^21: a whole number of degrees an i64 holds, and an f64 holds it
\* and its neighbours exactly); one of class "huge" is v * 2^63 degrees
\* (v # 0, a whole number of degrees no i64 holds); the class "inf" is the
\* infinity of sign v, and "nan" is NaN.
Deg(v) == [class |-> "finite", v |-> v, off |-> 0]
DegBigOff(v, off) == [class |-> "big", v |-> v, off |-> off]
DegBig(v) == DegBigOff(v, 0)
DegHuge(v) == [class |-> "huge", v |-> v, off |-> 0]
DegInf(v) == [class |-> "inf", v |-> v, off |-> 0]
DegNaN == [class |-> "nan", v |-> 0, off |-> 0]

\* An i64 that is not negative, in three limbs of 21 bits, the high one first.
Limb == 2097152
I64(n) == <<0, n \div Limb, n % Limb>>

\* i64::MAX, 2^63 - 1.
I64Max == <<Limb - 1, Limb - 1, Limb - 1>>

\* The magnitude |v * 2^42 + off| of a value of class "big", which is whole:
\* |v| * 2^42 plus off when v is positive and less off when it is negative,
\* with a borrow from the high limb when that is below |v| * 2^42.
I64BigAbs(r) ==
    LET o == IF r.v > 0 THEN r.off ELSE 0 - r.off
    IN IF o >= 0 THEN <<Abs(r.v), 0, o>> ELSE <<Abs(r.v) - 1, Limb - 1, Limb + o>>

\* The i64 remainder `%` by a small positive m.
I64Rem(n, m) ==
    ((((n[1] % m) * (Limb % m) + n[2]) % m) * (Limb % m) + n[3]) % m

\* `rotation.abs().round() as i64`: f64::round of the magnitude, halves away
\* from zero, then the cast, which saturates: a magnitude of 2^63 or more, the
\* infinite one too, becomes i64::MAX, and NaN becomes 0.
RoundAbs(r) ==
    CASE r.class = "finite" -> I64((Abs(r.v) + (Unit \div 2)) \div Unit)
      [] r.class = "big" -> I64BigAbs(r)
      [] r.class \in {"huge", "inf"} -> I64Max
      [] r.class = "nan" -> I64(0)

\* `rotation - 180.0` in f64: exact on the values below 2^53 drawn; a value of
\* 2^63 or more lies further than 180 from the f64 next to it, so the
\* difference rounds back to the value itself, and the infinities and NaN stay.
Minus180(r) ==
    CASE r.class = "finite" -> Deg(r.v - 180 * Unit)
      [] r.class = "big" -> DegBigOff(r.v, r.off - 180)
      [] r.class \in {"huge", "inf", "nan"} -> r

\* Mutant: the magnitude is truncated instead of rounded.
BuildRotationTruncates(r) ==
    IF I64Rem(IF r.class = "finite" THEN I64(Abs(r.v) \div Unit) ELSE RoundAbs(r), 360) # 0
    THEN Minus180(r) ELSE Deg(0)

\* Lines 490-494: the stored rotation.
BuildRotation(r) ==
    IF I64Rem(RoundAbs(r), 360) # 0 THEN Minus180(r) ELSE Deg(0)

\* Mutant: the index 0 (ByBlock) is taken for a color as well.
BuildColorTakesZero(format_info, color) ==
    IF format_info.color_index # None
       /\ format_info.color_index[1] >= 0 /\ format_info.color_index[1] < 256
    THEN HexColorFromU32(format_info.color_index[1])
    ELSE IF color # None THEN color[1] ELSE HexColorBlack

\* Lines 528-542: the color, from the format's color index or the builder's color.
BuildColor(format_info, color) ==
    IF format_info.color_index # None
    THEN LET color_idx == format_info.color_index[1] IN
         IF color_idx > 0 /\ color_idx < 256
         THEN HexColorFromU32(color_idx)
         ELSE IF color # None THEN color[1] ELSE HexColorBlack
    ELSE IF color # None THEN color[1] ELSE HexColorBlack

\* Lines 496-521: the font; family None stands for FontInfo::default()'s family.
BuildFont(text_height, format_info) ==
    [ point_size |-> text_height,
      family |-> format_info.family,
      style |-> IF format_info.italic THEN "Italic" ELSE "Normal",
      weight |-> IF format_info.bold THEN 75 ELSE 50 ]

\* Lines 357-548: DTextBuilder::build, with the uuid Uuid::new_v4() drew.
Build(b, uuid) ==
    LET e == b.text
        format_info == BuildFormatInfo(e)
    IN
    [ x |-> e.x, y |-> 0 - e.y, z |-> e.z,
      rotation |-> BuildRotation(e.rotation),
      uuid |-> uuid,
      font |-> BuildFont(e.text_height, format_info),
      reference_rectangle_width |->
          IF e.kind = "MText" THEN e.reference_rectangle_width ELSE 0,
      h_alignment |-> e.h_alignment,
      v_alignment |-> e.v_alignment,
      text_from |-> "UserText",
      frame |-> FALSE,
      text_width |-> -1,
      color |-> BuildColor(format_info, b.color),
      original_text_height |-> e.text_height,
      text |-> BuildValue(e),
      keep_visual_rotation |-> FALSE,
      info_name |-> None ]

\* Mutant: the point size follows the vertical factor.
ScalePointSizeByY(txt, fx, fy) ==
    [txt EXCEPT !.x = (@ * fx.num) \div fx.den,
                !.y = (@ * fy.num) \div fy.den,
                !.font.point_size = (@ * fy.num) \div fy.den]

\* Lines 294-299: ScaleEntity::scale by the factors fx = fxn/fxd and fy = fyn/fyd.
Scale(txt, fx, fy) ==
    [txt EXCEPT !.x = (@ * fx.num) \div fx.den,
                !.y = (@ * fy.num) \div fy.den,
                !.font.point_size = (@ * fx.num) \div fx.den]

\* Lines 301-317: the four bound queries; the right and the bottom bound are 1.0.
Bounds(txt) ==
    [ left_bound |-> txt.x, right_bound |-> Unit,
      top_bound |-> txt.y, bot_bound |-> Unit ]

\* --------------------------------------------------------- XML emission

\* UnicodeSegmentation::graphemes(true): the extended grapheme clusters of
\* Unicode Standard Annex 29.  The classes of characters are tables of
\* inclusive ranges of scalar values, those of Unicode 16.0, with the
\* Indic_Conjunct_Break classes of rule GB9c.
InRanges(c, R) == \E r \in R : r[1] <= c /\ c <= r[2]

\* Grapheme_Cluster_Break = Control: the controls, format characters and
\* separators of lines and paragraphs, apart from CR, LF, ZWNJ, ZWJ and the
\* prepended marks; inclusive ranges of scalar values.
GcbControl ==
    { <<0, 9>>, <<11, 12>>, <<14, 31>>, <<127, 159>>, <<173, 173>>, <<1564, 1564>>,
      <<6158, 6158>>, <<8203, 8203>>, <<8206, 8207>>, <<8232, 8238>>, <<8288, 8303>>,
      <<65279, 65279>>, <<65520, 65531>>, <<78896, 78911>>, <<113824, 113827>>, <<119155,
      119162>>, <<917504, 917535>>, <<917632, 917759>>, <<918000, 921599>> }

\* Grapheme_Cluster_Break = Extend: the nonspacing and enclosing marks, the
\* other characters with Grapheme_Extend, and the emoji modifiers.
GcbExtend ==
    { <<768, 879>>, <<1155, 1161>>, <<1425, 1469>>, <<1471, 1471>>, <<1473, 1474>>,
      <<1476, 1477>>, <<1479, 1479>>, <<1552, 1562>>, <<1611, 1631>>, <<1648, 1648>>,
      <<1750, 1756>>, <<1759, 1764>>, <<1767, 1768>>, <<1770, 1773>>, <<1809, 1809>>,
      <<1840, 1866>>, <<1958, 1968>>, <<2027, 2035>>, <<2045, 2045>>, <<2070, 2073>>,
      <<2075, 2083>>, <<2085, 2087>>, <<2089, 2093>>, <<2137, 2139>>, <<2199, 2207>>,
      <<2250, 2273>>, <<2275, 2306>>, <<2362, 2362>>, <<2364, 2364>>, <<2369, 2376>>,
      <<2381, 2381>>, <<2385, 2391>>, <<2402, 2403>>, <<2433, 2433>>, <<2492, 2492>>,
      <<2494, 2494>>, <<2497, 2500>>, <<2509, 2509>>, <<2519, 2519>>, <<2530, 2531>>,
      <<2558, 2558>>, <<2561, 2562>>, <<2620, 2620>>, <<2625, 2626>>, <<2631, 2632>>,
      <<2635, 2637>>, <<2641, 2641>>, <<2672, 2673>>, <<2677, 2677>>, <<2689, 2690>>,
      <<2748, 2748>>, <<2753, 2757>>, <<2759, 2760>>, <<2765, 2765>>, <<2786, 2787>>,
      <<2810, 2815>>, <<2817, 2817>>, <<2876, 2876>>, <<2878, 2879>>, <<2881, 2884>>,
      <<2893, 2893>>, <<2901, 2903>>, <<2914, 2915>>, <<2946, 2946>>, <<3006, 3006>>,
      <<3008, 3008>>, <<3021, 3021>>, <<3031, 3031>>, <<3072, 3072>>, <<3076, 3076>>,
      <<3132, 3132>>, <<3134, 3136>>, <<3142, 3144>>, <<3146, 3149>>, <<3157, 3158>>,
      <<3170, 3171>>, <<3201, 3201>>, <<3260, 3260>>, <<3263, 3264>>, <<3266, 3266>>,
      <<3270, 3272>>, <<3274, 3277>>, <<3285, 3286>>, <<3298, 3299>>, <<3328, 3329>>,
      <<3387, 3388>>, <<3390, 3390>>, <<3393, 3396>>, <<3405, 3405>>, <<3415, 3415>>,
      <<3426, 3427>>, <<3457, 3457>>, <<3530, 3530>>, <<3535, 3535>>, <<3538, 3540>>,
      <<3542, 3542>>, <<3551, 3551>>, <<3633, 3633>>, <<3636, 3642>>, <<3655, 3662>>,
      <<3761, 3761>>, <<3764, 3772>>, <<3784, 3790>>, <<3864, 3865>>, <<3893, 3893>>,
      <<3895, 3895>>, <<3897, 3897>>, <<3953, 3966>>, <<3968, 3972>>, <<3974, 3975>>,
      <<3981, 3991>>, <<3993, 4028>>, <<4038, 4038>>, <<4141, 4144>>, <<4146, 4151>>,
      <<4153, 4154>>, <<4157, 4158>>, <<4184, 4185>>, <<4190, 4192>>, <<4209, 4212>>,
      <<4226, 4226>>, <<4229, 4230>>, <<4237, 4237>>, <<4253, 4253>>, <<4957, 4959>>,
      <<5906, 5909>>, <<5938, 5940>>, <<5970, 5971>>, <<6002, 6003>>, <<6068, 6069>>,
      <<6071, 6077>>, <<6086, 6086>>, <<6089, 6099>>, <<6109, 6109>>, <<6155, 6157>>,
      <<6159, 6159>>, <<6277, 6278>>, <<6313, 6313>>, <<6432, 6434>>, <<6439, 6440>>,
      <<6450, 6450>>, <<6457, 6459>>, <<6679, 6680>>, <<6683, 6683>>, <<6742, 6742>>,
      <<6744, 6750>>, <<6752, 6752>>, <<6754, 6754>>, <<6757, 6764>>, <<6771, 6780>>,
      <<6783, 6783>>, <<6832, 6862>>, <<6912, 6915>>, <<6964, 6973>>, <<6978, 6980>>,
      <<7019, 7027>>, <<7040, 7041>>, <<7074, 7077>>, <<7080, 7085>>, <<7142, 7142>>,
      <<7144, 7145>>, <<7149, 7149>>, <<7151, 7155>>, <<7212, 7219>>, <<7222, 7223>>,
      <<7376, 7378>>, <<7380, 7392>>, <<7394, 7400>>, <<7405, 7405>>, <<7412, 7412>>,
      <<7416, 7417>>, <<7616, 7679>>, <<8204, 8204>>, <<8400, 8432>>, <<11503, 11505>>,
      <<11647, 11647>>, <<11744, 11775>>, <<12330, 12335>>, <<12441, 12442>>, <<42607,
      42610>>, <<42612, 42621>>, <<42654, 42655>>, <<42736, 42737>>, <<43010, 43010>>,
      <<43014, 43014>>, <<43019, 43019>>, <<43045, 43046>>, <<43052, 43052>>, <<43204,
      43205>>, <<43232, 43249>>, <<43263, 43263>>, <<43302, 43309>>, <<43335, 43345>>,
      <<43347, 43347>>, <<43392, 43394>>, <<43443, 43443>>, <<43446, 43449>>, <<43452,
      43453>>, <<43456, 43456>>, <<43493, 43493>>, <<43561, 43566>>, <<43569, 43570>>,
      <<43573, 43574>>, <<43587, 43587>>, <<43596, 43596>>, <<43644, 43644>>, <<43696,
      43696>>, <<43698, 43700>>, <<43703, 43704>>, <<43710, 43711>>, <<43713, 43713>>,
      <<43756, 43757>>, <<43766, 43766>>, <<44005, 44005>>, <<44008, 44008>>, <<44013,
      44013>>, <<64286, 64286>>, <<65024, 65039>>, <<65056, 65071>>, <<65438, 65439>>,
      <<66045, 66045>>, <<66272, 66272>>, <<66422, 66426>>, <<68097, 68099>>, <<68101,
      68102>>, <<68108, 68111>>, <<68152, 68154>>, <<68159, 68159>>, <<68325, 68326>>,
      <<68900, 68903>>, <<68969, 68973>>, <<69291, 69292>>, <<69372, 69375>>, <<69446,
      69456>>, <<69506, 69509>>, <<69633, 69633>>, <<69688, 69702>>, <<69744, 69744>>,
      <<69747, 69748>>, <<69759, 69761>>, <<69811, 69814>>, <<69817, 69818>>, <<69826,
      69826>>, <<69888, 69890>>, <<69927, 69931>>, <<69933, 69940>>, <<70003, 70003>>,
      <<70016, 70017>>, <<70070, 70078>>, <<70080, 70080>>, <<70089, 70092>>, <<70095,
      70095>>, <<70191, 70193>>, <<70196, 70199>>, <<70206, 70206>>, <<70209, 70209>>,
      <<70367, 70367>>, <<70371, 70378>>, <<70400, 70401>>, <<70459, 70460>>, <<70462,
      70462>>, <<70464, 70464>>, <<70477, 70477>>, <<70487, 70487>>, <<70502, 70508>>,
      <<70512, 70516>>, <<70584, 70584>>, <<70587, 70592>>, <<70594, 70594>>, <<70597,
      70597>>, <<70599, 70601>>, <<70606, 70608>>, <<70610, 70610>>, <<70625, 70626>>,
      <<70712, 70719>>, <<70722, 70724>>, <<70726, 70726>>, <<70750, 70750>>, <<70832,
      70832>>, <<70835, 70840>>, <<70842, 70842>>, <<70845, 70845>>, <<70847, 70848>>,
      <<70850, 70851>>, <<71087, 71087>>, <<71090, 71093>>, <<71100, 71101>>, <<71103,
      71104>>, <<71132, 71133>>, <<71219, 71226>>, <<71229, 71229>>, <<71231, 71232>>,
      <<71339, 71339>>, <<71341, 71341>>, <<71344, 71351>>, <<71453, 71453>>, <<71455,
      71455>>, <<71458, 71461>>, <<71463, 71467>>, <<71727, 71735>>, <<71737, 71738>>,
      <<71984, 71984>>, <<71995, 71998>>, <<72003, 72003>>, <<72148, 72151>>, <<72154,
      72155>>, <<72160, 72160>>, <<72193, 72202>>, <<72243, 72248>>, <<72251, 72254>>,
      <<72263, 72263>>, <<72273, 72278>>, <<72281, 72283>>, <<72330, 72342>>, <<72344,
      72345>>, <<72752, 72758>>, <<72760, 72765>>, <<72767, 72767>>, <<72850, 72871>>,
      <<72874, 72880>>, <<72882, 72883>>, <<72885, 72886>>, <<73009, 73014>>, <<73018,
      73018>>, <<73020, 73021>>, <<73023, 73029>>, <<73031, 73031>>, <<73104, 73105>>,
      <<73109, 73109>>, <<73111, 73111>>, <<73459, 73460>>, <<73472, 73473>>, <<73526,
      73530>>, <<73536, 73538>>, <<73562, 73562>>, <<78912, 78912>>, <<78919, 78933>>,
      <<90398, 90409>>, <<90413, 90415>>, <<92912, 92916>>, <<92976, 92982>>, <<94031,
      94031>>, <<94095, 94098>>, <<94180, 94180>>, <<94192, 94193>>, <<113821, 113822>>,
      <<118528, 118573>>, <<118576, 118598>>, <<119141, 119145>>, <<119149, 119154>>,
      <<119163, 119170>>, <<119173, 119179>>, <<119210, 119213>>, <<119362, 119364>>,
      <<121344, 121398>>, <<121403, 121452>>, <<121461, 121461>>, <<121476, 121476>>,
      <<121499, 121503>>, <<121505, 121519>>, <<122880, 122886>>, <<122888, 122904>>,
      <<122907, 122913>>, <<122915, 122916>>, <<122918, 122922>>, <<123023, 123023>>,
      <<123184, 123190>>, <<123566, 123566>>, <<123628, 123631>>, <<124140, 124143>>,
      <<124398, 124399>>, <<125136, 125142>>, <<125252, 125258>>, <<127995, 127999>>,
      <<917536, 917631>>, <<917760, 917999>> }

\* Grapheme_Cluster_Break = SpacingMark.
GcbSpacingMark ==
    { <<2307, 2307>>, <<2363, 2363>>, <<2366, 2368>>, <<2377, 2380>>, <<2382, 2383>>,
      <<2434, 2435>>, <<2495, 2496>>, <<2503, 2504>>, <<2507, 2508>>, <<2563, 2563>>,
      <<2622, 2624>>, <<2691, 2691>>, <<2750, 2752>>, <<2761, 2761>>, <<2763, 2764>>,
      <<2818, 2819>>, <<2880, 2880>>, <<2887, 2888>>, <<2891, 2892>>, <<3007, 3007>>,
      <<3009, 3010>>, <<3014, 3016>>, <<3018, 3020>>, <<3073, 3075>>, <<3137, 3140>>,
      <<3202, 3203>>, <<3262, 3262>>, <<3265, 3265>>, <<3267, 3268>>, <<3315, 3315>>,
      <<3330, 3331>>, <<3391, 3392>>, <<3398, 3400>>, <<3402, 3404>>, <<3458, 3459>>,
      <<3536, 3537>>, <<3544, 3550>>, <<3570, 3571>>, <<3635, 3635>>, <<3763, 3763>>,
      <<3902, 3903>>, <<3967, 3967>>, <<4145, 4145>>, <<4155, 4156>>, <<4182, 4183>>,
      <<4228, 4228>>, <<6070, 6070>>, <<6078, 6085>>, <<6087, 6088>>, <<6435, 6438>>,
      <<6441, 6443>>, <<6448, 6449>>, <<6451, 6456>>, <<6681, 6682>>, <<6741, 6741>>,
      <<6743, 6743>>, <<6765, 6770>>, <<6916, 6916>>, <<6974, 6977>>, <<7042, 7042>>,
      <<7073, 7073>>, <<7078, 7079>>, <<7143, 7143>>, <<7146, 7148>>, <<7150, 7150>>,
      <<7204, 7211>>, <<7220, 7221>>, <<7393, 7393>>, <<7415, 7415>>, <<43043, 43044>>,
      <<43047, 43047>>, <<43136, 43137>>, <<43188, 43203>>, <<43346, 43346>>, <<43395,
      43395>>, <<43444, 43445>>, <<43450, 43451>>, <<43454, 43455>>, <<43567, 43568>>,
      <<43571, 43572>>, <<43597, 43597>>, <<43755, 43755>>, <<43758, 43759>>, <<43765,
      43765>>, <<44003, 44004>>, <<44006, 44007>>, <<44009, 44010>>, <<44012, 44012>>,
      <<69632, 69632>>, <<69634, 69634>>, <<69762, 69762>>, <<69808, 69810>>, <<69815,
      69816>>, <<69932, 69932>>, <<69957, 69958>>, <<70018, 70018>>, <<70067, 70069>>,
      <<70079, 70079>>, <<70094, 70094>>, <<70188, 70190>>, <<70194, 70195>>, <<70368,
      70370>>, <<70402, 70403>>, <<70463, 70463>>, <<70465, 70468>>, <<70471, 70472>>,
      <<70475, 70476>>, <<70498, 70499>>, <<70585, 70586>>, <<70602, 70602>>, <<70604,
      70605>>, <<70709, 70711>>, <<70720, 70721>>, <<70725, 70725>>, <<70833, 70834>>,
      <<70841, 70841>>, <<70843, 70844>>, <<70846, 70846>>, <<70849, 70849>>, <<71088,
      71089>>, <<71096, 71099>>, <<71102, 71102>>, <<71216, 71218>>, <<71227, 71228>>,
      <<71230, 71230>>, <<71340, 71340>>, <<71342, 71343>>, <<71454, 71454>>, <<71462,
      71462>>, <<71724, 71726>>, <<71736, 71736>>, <<71985, 71989>>, <<71991, 71992>>,
      <<72000, 72000>>, <<72002, 72002>>, <<72145, 72147>>, <<72156, 72159>>, <<72164,
      72164>>, <<72249, 72249>>, <<72279, 72280>>, <<72343, 72343>>, <<72751, 72751>>,
      <<72766, 72766>>, <<72873, 72873>>, <<72881, 72881>>, <<72884, 72884>>, <<73098,
      73102>>, <<73107, 73108>>, <<73110, 73110>>, <<73461, 73462>>, <<73475, 73475>>,
      <<73524, 73525>>, <<73534, 73535>>, <<90410, 90412>>, <<94033, 94087>> }

\* Grapheme_Cluster_Break = Prepend.
GcbPrepend ==
    { <<1536, 1541>>, <<1757, 1757>>, <<1807, 1807>>, <<2192, 2193>>, <<2274, 2274>>,
      <<3406, 3406>>, <<69821, 69821>>, <<69837, 69837>>, <<70082, 70083>>, <<70609,
      70609>>, <<71999, 71999>>, <<72001, 72001>>, <<72250, 72250>>, <<72324, 72329>>,
      <<73030, 73030>>, <<73474, 73474>> }

\* Extended_Pictographic.
ExtendedPictographic ==
    { <<169, 169>>, <<174, 174>>, <<8252, 8252>>, <<8265, 8265>>, <<8482, 8482>>, <<8505,
      8505>>, <<8596, 8601>>, <<8617, 8618>>, <<8986, 8987>>, <<9000, 9000>>, <<9096,
      9096>>, <<9167, 9167>>, <<9193, 9203>>, <<9208, 9210>>, <<9410, 9410>>, <<9642,
      9643>>, <<9654, 9654>>, <<9664, 9664>>, <<9723, 9726>>, <<9728, 9733>>, <<9735,
      9746>>, <<9748, 9861>>, <<9872, 9989>>, <<9992, 10002>>, <<10004, 10004>>, <<10006,
      10006>>, <<10013, 10013>>, <<10017, 10017>>, <<10024, 10024>>, <<10035, 10036>>,
      <<10052, 10052>>, <<10055, 10055>>, <<10060, 10060>>, <<10062, 10062>>, <<10067,
      10069>>, <<10071, 10071>>, <<10083, 10087>>, <<10133, 10135>>, <<10145, 10145>>,
      <<10160, 10160>>, <<10175, 10175>>, <<10548, 10549>>, <<11013, 11015>>, <<11035,
      11036>>, <<11088, 11088>>, <<11093, 11093>>, <<12336, 12336>>, <<12349, 12349>>,
      <<12951, 12951>>, <<12953, 12953>>, <<126976, 127231>>, <<127245, 127247>>,
      <<127279, 127279>>, <<127340, 127345>>, <<127358, 127359>>, <<127374, 127374>>,
      <<127377, 127386>>, <<127405, 127461>>, <<127489, 127503>>, <<127514, 127514>>,
      <<127535, 127535>>, <<127538, 127546>>, <<127548, 127551>>, <<127561, 127994>>,
      <<128000, 128317>>, <<128326, 128591>>, <<128640, 128767>>, <<128884, 128895>>,
      <<128981, 129023>>, <<129036, 129039>>, <<129096, 129103>>, <<129114, 129119>>,
      <<129160, 129167>>, <<129198, 129279>>, <<129292, 129338>>, <<129340, 129349>>,
      <<129351, 129791>>, <<130048, 131069>> }

\* Indic_Conjunct_Break = Consonant.
InCBConsonant ==
    { <<2325, 2361>>, <<2392, 2399>>, <<2424, 2431>>, <<2453, 2472>>, <<2474, 2480>>,
      <<2482, 2482>>, <<2486, 2489>>, <<2524, 2525>>, <<2527, 2527>>, <<2544, 2545>>,
      <<2709, 2728>>, <<2730, 2736>>, <<2738, 2739>>, <<2741, 2745>>, <<2809, 2809>>,
      <<2837, 2856>>, <<2858, 2864>>, <<2866, 2867>>, <<2869, 2873>>, <<2908, 2909>>,
      <<2911, 2911>>, <<2929, 2929>>, <<3093, 3112>>, <<3114, 3129>>, <<3160, 3162>>,
      <<3349, 3386>> }

\* Indic_Conjunct_Break = Linker.
InCBLinker ==
    { <<2381, 2381>>, <<2509, 2509>>, <<2765, 2765>>, <<2893, 2893>>, <<3149, 3149>>,
      <<3405, 3405>> }

\* Control, CR and LF: a cluster ends before and after each (GB4, GB5).
IsControl(c) == c \in {10, 13} \/ InRanges(c, GcbControl)

\* Extend and ZWJ (U+200D): no cluster starts at one (GB9).
IsExtend(c) == c = 8205 \/ InRanges(c, GcbExtend)

IsSpacingMark(c) == InRanges(c, GcbSpacingMark)
IsPrepend(c) == InRanges(c, GcbPrepend)
IsExtendedPictographic(c) == InRanges(c, ExtendedPictographic)
IsRegionalIndicator(c) == c \in 127462..127487

\* Indic_Conjunct_Break = Extend or Linker: Extend and ZWJ, but not ZWNJ (U+200C).
IsInCBExtendOrLinker(c) == IsExtend(c) /\ c # 8204

\* Hangul syllable types: leading and trailing consonants, vowels (with the
\* Kirat Rai vowel signs U+16D63 and U+16D67..U+16D6A, which are of type V),
\* and the precomposed syllables, which end in a vowel (LV) every 28th and in
\* a consonant (LVT) otherwise.
IsHangulL(c) == c \in 4352..4447 \/ c \in 43360..43388
IsHangulV(c) == c \in 4448..4519 \/ c \in 55216..55238 \/ c = 93539 \/ c \in 93543..93546
IsHangulT(c) == c \in 4520..4607 \/ c \in 55243..55291
IsHangulLV(c) == c \in 44032..55203 /\ (c - 44032) % 28 = 0
IsHangulLVT(c) == c \in 44032..55203 /\ (c - 44032) % 28 # 0

\* No cluster boundary lies between s[k - 1] and s[k] (rules GB3 to GB13; any
\* other pair of neighbours is parted, GB999).
NoBreak(s, k) ==
    LET a == s[k - 1]
        b == s[k]
        linked(m) == InRanges(s[m], InCBLinker)
        run == CHOOSE j \in 1..k : /\ \A m \in j..(k - 1) : IsRegionalIndicator(s[m])
                                   /\ j > 1 => ~IsRegionalIndicator(s[j - 1])
    IN
    IF a = Ch.cr /\ b = Ch.nl THEN TRUE
    ELSE IF IsControl(a) \/ IsControl(b) THEN FALSE
    ELSE \/ IsHangulL(a) /\ (IsHangulL(b) \/ IsHangulV(b) \/ IsHangulLV(b) \/ IsHangulLVT(b))
         \/ (IsHangulLV(a) \/ IsHangulV(a)) /\ (IsHangulV(b) \/ IsHangulT(b))
         \/ (IsHangulLVT(a) \/ IsHangulT(a)) /\ IsHangulT(b)
         \/ IsExtend(b)
         \/ IsSpacingMark(b)
         \/ IsPrepend(a)
         \/ /\ InRanges(b, InCBConsonant)
            /\ \E j \in 1..(k - 1) :
                 /\ InRanges(s[j], InCBConsonant)
                 /\ \A m \in (j + 1)..(k - 1) : IsInCBExtendOrLinker(s[m])
                 /\ \E m \in (j + 1)..(k - 1) : linked(m)
         \/ /\ IsExtendedPictographic(b) /\ a = 8205
            /\ \E j \in 1..(k - 2) :
                 /\ IsExtendedPictographic(s[j])
                 /\ \A m \in (j + 1)..(k - 2) : InRanges(s[m], GcbExtend)
         \/ IsRegionalIndicator(a) /\ IsRegionalIndicator(b) /\ (k - run) % 2 = 1

\* Line 242: graphemes(true).count(), the number of places where a cluster starts.
GraphemeCount(s) ==
    Cardinality({k \in 1..Len(s) : k = 1 \/ ~NoBreak(s, k)})

\* Mutant: the width is guessed from the byte length of the text.
XmlTxtWidthByBytes(txt) ==
    IF txt.reference_rectangle_width > 2 * Unit
    THEN txt.reference_rectangle_width
    ELSE (Len(Utf8(txt.text)) * txt.font.point_size * 3) \div 4

\* Lines 242-247: the reference width when it exceeds 2.0, else a guess.
XmlTxtWidth(txt) ==
    IF txt.reference_rectangle_width > 2 * Unit
    THEN txt.reference_rectangle_width
    ELSE (GraphemeCount(txt.text) * txt.font.point_size * 3) \div 4

\* Lines 249-256: x + 0.5 - pt/8 - 4.05, moved left by the alignment.
XmlXPos(txt) ==
    LET pt_size == txt.font.point_size
        txt_width == XmlTxtWidth(txt)
        x_pos == txt.x + (Unit \div 2) - (pt_size \div 8) - ((405 * Unit) \div 100)
    IN CASE txt.h_alignment = "Left" -> x_pos
         [] txt.h_alignment = "Center" -> x_pos - (txt_width \div 2)
         [] txt.h_alignment = "Right" -> x_pos - txt_width

\* Line 257: y + 0.5 - (7/5 * pt + 26/5) + pt.
XmlYPos(txt) ==
    LET pt_size == txt.font.point_size IN
    txt.y + (Unit \div 2) - ((7 * pt_size) \div 5 + (26 * Unit) \div 5) + pt_size

\* super::two_dec, the Display impls and display_rgb format a value; their text
\* is not part of these sources, so an attribute value names the formatter and
\* what it was given.
Formatted(how, v) == [fmt |-> how, of |-> v]

\* Mutant: keep_visual_rotation is written whatever the flag says.
ToXmlAlwaysKeeps(txt) ==
    [ name |-> "dynamic_text",
      attributes |->
        << <<"x", Formatted("two_dec", XmlXPos(txt))>>,
           <<"y", Formatted("two_dec", XmlYPos(txt))>>,
           <<"z", Formatted("two_dec", txt.z)>>,
           <<"rotation", Formatted("two_dec", txt.rotation)>>,
           <<"uuid", Formatted("braces", txt.uuid)>>,
           <<"font", Formatted("display", txt.font)>>,
           <<"Halignment", Formatted("display", txt.h_alignment)>>,
           <<"Valignment", Formatted("display", txt.v_alignment)>>,
           <<"text_from", Formatted("display", txt.text_from)>>,
           <<"frame", Formatted("display", txt.frame)>>,
           <<"text_width", Formatted("display", txt.text_width)>>,
           <<"color", Formatted("display_rgb", txt.color)>> >>
        \o (IF txt.info_name # None
            THEN << <<"info_name", Formatted("display", txt.info_name[1])>> >>
            ELSE <<>>)
        \o << <<"keep_visual_rotation", Formatted("display", txt.keep_visual_rotation)>> >>,
      children |-> << [name |-> "text", text |-> txt.text] >> ]

\* Lines 216-290: the dynamic_text node.
ToXml(txt) ==
    [ name |-> "dynamic_text",
      attributes |->
        << <<"x", Formatted("two_dec", XmlXPos(txt))>>,
           <<"y", Formatted("two_dec", XmlYPos(txt))>>,
           <<"z", Formatted("two_dec", txt.z)>>,
           <<"rotation", Formatted("two_dec", txt.rotation)>>,
           <<"uuid", Formatted("braces", txt.uuid)>>,
           <<"font", Formatted("display", txt.font)>>,
           <<"Halignment", Formatted("display", txt.h_alignment)>>,
           <<"Valignment", Formatted("display", txt.v_alignment)>>,
           <<"text_from", Formatted("display", txt.text_from)>>,
           <<"frame", Formatted("display", txt.frame)>>,
           <<"text_width", Formatted("display", txt.text_width)>>,
           <<"color", Formatted("display_rgb", txt.color)>> >>
        \o (IF txt.info_name # None
            THEN << <<"info_name", Formatted("display", txt.info_name[1])>> >>
            ELSE <<>>)
        \o (IF txt.keep_visual_rotation
            THEN << <<"keep_visual_rotation", Formatted("display", txt.keep_visual_rotation)>> >>
            ELSE <<>>),
      children |-> << [name |-> "text", text |-> txt.text] >> ]

\* ------------------------------------------------- lib.rs: the two tallies

\* lib.rs lines 80-90: the eleven counters, at zero.
ZeroCounts ==
    [ circle_count |-> 0, line_count |-> 0, arc_count |-> 0, spline_count |-> 0,
      text_count |-> 0, ellipse_count |-> 0, polyline_count |-> 0,
      lwpolyline_count |-> 0, solid_count |-> 0, block_count |-> 0,
      other_count |-> 0 ]

\* lib.rs lines 93-105: the match on e.specific; e is the name of the variant.
CountEntity(c, e) ==
    CASE e = "Circle" -> [c EXCEPT !.circle_count = @ + 1]
      [] e = "Line" -> [c EXCEPT !.line_count = @ + 1]
      [] e = "Arc" -> [c EXCEPT !.arc_count = @ + 1]
      [] e = "Spline" -> [c EXCEPT !.spline_count = @ + 1]
      [] e = "Text" -> [c EXCEPT !.text_count = @ + 1]
      [] e = "Ellipse" -> [c EXCEPT !.ellipse_count = @ + 1]
      [] e = "Polyline" -> [c EXCEPT !.polyline_count = @ + 1]
      [] e = "LwPolyline" -> [c EXCEPT !.lwpolyline_count = @ + 1]
      [] e = "Solid" -> [c EXCEPT !.solid_count = @ + 1]
      [] e = "Insert" -> [c EXCEPT !.block_count = @ + 1]
      [] OTHER -> [c EXCEPT !.other_count = @ + 1]

\* lib.rs lines 116-129: ConversionStats, without the elapsed time.
ConversionStats(c) ==
    [ circles |-> c.circle_count, lines |-> c.line_count, arcs |-> c.arc_count,
      splines |-> c.spline_count, texts |-> c.text_count,
      ellipses |-> c.ellipse_count, polylines |-> c.polyline_count,
      lwpolylines |-> c.lwpolyline_count, solids |-> c.solid_count,
      blocks |-> c.block_count, unsupported |-> c.other_count ]

\* lib.rs lines 158-164: the seven counters of the emitted objects, at zero.
ZeroElmt ==
    [ elmt_circles |-> 0, elmt_lines |-> 0, elmt_arcs |-> 0, elmt_polygons |-> 0,
      elmt_dynamic_texts |-> 0, elmt_texts |-> 0, elmt_groups |-> 0 ]

\* Mutant: a group is counted and its objects are not walked.
RECURSIVE CountObjectsShallow(_, _)
CountObjectsShallow(objs, c) ==
    IF objs = <<>> THEN c
    ELSE LET obj == Head(objs)
             c1 == CASE obj.kind = "Arc" -> [c EXCEPT !.elmt_arcs = @ + 1]
                     [] obj.kind = "Ellipse" -> [c EXCEPT !.elmt_circles = @ + 1]
                     [] obj.kind = "Polygon" -> [c EXCEPT !.elmt_polygons = @ + 1]
                     [] obj.kind = "DynamicText" -> [c EXCEPT !.elmt_dynamic_texts = @ + 1]
                     [] obj.kind = "Text" -> [c EXCEPT !.elmt_texts = @ + 1]
                     [] obj.kind = "Line" -> [c EXCEPT !.elmt_lines = @ + 1]
                     [] obj.kind = "Group" -> [c EXCEPT !.elmt_groups = @ + 1]
         IN CountObjectsShallow(Tail(objs), c1)

\* lib.rs lines 166-183: the walker; c holds the counters it is handed by
\* reference, and the result is what they hold when it returns.
RECURSIVE count_objects_recursive(_, _)
count_objects_recursive(objs, c) ==
    IF objs = <<>> THEN c
    ELSE LET obj == Head(objs)
             c1 == CASE obj.kind = "Arc" -> [c EXCEPT !.elmt_arcs = @ + 1]
                     [] obj.kind = "Ellipse" -> [c EXCEPT !.elmt_circles = @ + 1]
                     [] obj.kind = "Polygon" -> [c EXCEPT !.elmt_polygons = @ + 1]
                     [] obj.kind = "DynamicText" -> [c EXCEPT !.elmt_dynamic_texts = @ + 1]
                     [] obj.kind = "Text" -> [c EXCEPT !.elmt_texts = @ + 1]
                     [] obj.kind = "Line" -> [c EXCEPT !.elmt_lines = @ + 1]
                     [] obj.kind = "Group" ->
                          count_objects_recursive(obj.objects,
                                                  [c EXCEPT !.elmt_groups = @ + 1])
         IN count_objects_recursive(Tail(objs), c1)

\* ---------------------------------------- lib.rs: convert_dxf_file, the log

\* A file path with its file_stem (the path itself when it has none) and with
\* what with_extension("log") makes of it, the path of the log file.
NoFile == [path |-> "", stem |-> "", log |-> ""]

\* lib.rs lines 93-105: for_each over all the entities.
RECURSIVE CountEntities(_, _)
CountEntities(es, c) ==
    IF es = <<>> THEN c ELSE CountEntities(Tail(es), CountEntity(c, Head(es)))

\* A message made by format! from a template and its argument.
Message(template, arg) == [fmt |-> template, of |-> arg]

\* What convert_dxf_file returns: Ok(ConversionResult) or Err(message).
Ok(message, st, content) ==
    [ ok |-> TRUE, success |-> TRUE, message |-> message,
      stats |-> st, xml_content |-> content ]
Err(message) ==
    [ ok |-> FALSE, success |-> FALSE, message |-> message,
      stats |-> None, xml_content |-> None ]

\* lib.rs lines 73-75: the context of the load error.
LoadError(f) ==
    Err(Message("Failed to load {}...\n\tMake sure the file is a valid .dxf file.", f.stem))

\* Mutant: the text is returned whether or not verbose is set.
XmlContentAlways(v, objs) == Some(Message("{}", "out_xml"))

\* lib.rs lines 108-113: the XML text, only when verbose.
XmlContent(v, objs) == IF v THEN Some(Message("{}", "out_xml")) ELSE None

\* lib.rs lines 142-147: the successful result.
Success(f, st, v, objs) ==
    Ok(Message("Successfully converted {}", f.stem), st, XmlContent(v, objs))

\* One entry of the log: a section, or the block of one text object.
LogEntry(section, n, tally, variant, object) ==
    [ section |-> section, n |-> n, tally |-> tally,
      variant |-> variant, object |-> object ]

\* Mutant: the objects of a group get no blocks.
RECURSIVE ProcessObjectsShallow(_, _)
ProcessObjectsShallow(objs, st) ==
    IF objs = <<>> THEN st
    ELSE LET obj == Head(objs)
             st1 == IF obj.kind \in {"DynamicText", "Text"}
                    THEN [ blocks |-> Append(st.blocks,
                              LogEntry("text", st.text_index, <<>>, obj.kind, obj.id)),
                           text_index |-> st.text_index + 1 ]
                    ELSE st
         IN ProcessObjectsShallow(Tail(objs), st1)

\* lib.rs lines 236-290: process_objects; st holds the blocks written and the
\* text_index it is handed by reference.
RECURSIVE process_objects(_, _)
process_objects(objs, st) ==
    IF objs = <<>> THEN st
    ELSE LET obj == Head(objs)
             st1 == CASE obj.kind = "DynamicText" ->
                          [ blocks |-> Append(st.blocks,
                               LogEntry("text", st.text_index, <<>>, "DynamicText", obj.id)),
                            text_index |-> st.text_index + 1 ]
                      [] obj.kind = "Text" ->
                          [ blocks |-> Append(st.blocks,
                               LogEntry("text", st.text_index, <<>>, "Text", obj.id)),
                            text_index |-> st.text_index + 1 ]
                      [] obj.kind = "Group" -> process_objects(obj.objects, st)
                      [] OTHER -> st
         IN process_objects(Tail(objs), st1)

\* lib.rs lines 189-296: everything write_text_log writes when no write fails.
LogEntries(objs, st, el) ==
    LET done == process_objects(objs, [blocks |-> <<>>, text_index |-> 1]) IN
    << LogEntry("header", 0, <<>>, "", <<>>),
       LogEntry("source",
                st.circles + st.lines + st.arcs + st.splines + st.texts + st.ellipses
                  + st.polylines + st.lwpolylines + st.solids + st.blocks + st.unsupported,
                << st.circles, st.lines, st.arcs, st.splines, st.texts, st.ellipses,
                   st.polylines, st.lwpolylines, st.solids, st.blocks, st.unsupported >>,
                "", <<>>),
       LogEntry("emitted",
                el.elmt_circles + el.elmt_lines + el.elmt_arcs + el.elmt_polygons
                  + el.elmt_dynamic_texts + el.elmt_texts + el.elmt_groups,
                << el.elmt_circles, el.elmt_lines, el.elmt_arcs, el.elmt_polygons,
                   el.elmt_dynamic_texts, el.elmt_texts, el.elmt_groups >>,
                "", <<>>) >>
    \o (IF st.unsupported > 0
        THEN << LogEntry("warning", st.unsupported, <<>>, "", <<>>) >>
        ELSE <<>>)
    \o << LogEntry("detail", 0, <<>>, "", <<>>) >>
    \o done.blocks
    \o << LogEntry("footer", done.text_index - 1, <<>>, "", <<>>) >>

\* ------------------------------------------------------------------- state

VARIABLES
    input,      \* normalize_mtext: the argument
    bytes,      \* ... text_part.as_bytes()
    i,          \* ... the cursor
    out,        \* ... the output string
    pc,         \* ... "idle" | "call" | "loop" | "done"
    rule,       \* ... the branch the last iteration took ("none" before the first)
    at,         \* ... the cursor at which the last iteration began
    outAt,      \* ... the output with which the last iteration began
    pass,       \* 1: normalize(s); 2: normalize(normalize(s))
    first,      \* the result of pass 1, once pass 2 has begun
    fmtInput,   \* extract_mtext_format: the argument
    fi,         \* ... the cursor
    info,       \* ... the MTextFormatInfo being filled
    fpc,        \* ... "idle" | "loop" | "done"
    builder,    \* DTextBuilder { text, color }, or None
    dtext,      \* the DynamicText build() returned, or None
    scales,     \* the scale calls made on it
    xml,        \* the XMLElement made from it, or None
    xmlOf,      \* ... and the DynamicText it was made from
    built,      \* the DynamicText as build() returned it, or None
    applied,    \* the factors of the scale calls made, in order
    bounds,     \* what the last bound queries returned, or None
    entities,   \* convert_dxf_file: the variants of drawing.entities(), in order
    objects,    \* ... q_elmt.description.objects
    visited,    \* ... the entities for_each has visited
    counts,     \* ... the eleven counters
    stats,      \* ... the ConversionStats, or None
    elmt,       \* write_text_log: the seven counters after the walk, or None
    tpc,        \* "idle" | "count" | "stats" | "logged", and the positions of
                \* convert_dxf_file: "start" | "loaded" | "counted" | "emitted" |
                \* "created" | "written" | "logging" | "returned"
    file,       \* convert_dxf_file: file_path and its stem
    verbose,    \* ... options.verbose
    loads,      \* ... whether Drawing::load_file will succeed on the file
    fsys,       \* ... the files created and written so far, in order
    log,        \* ... what has been written to the log file
    result      \* ... what was returned, or None

normVars == <<input, bytes, i, out, pc, rule, at, outAt, pass, first>>

fmtVars == <<fmtInput, fi, info, fpc>>

buildVars == <<builder, dtext, scales, xml, xmlOf, built, applied, bounds>>

tallyVars == <<entities, objects, visited, counts, stats, elmt, tpc>>

convVars == <<file, verbose, loads, fsys, log, result>>

vars == <<normVars, fmtVars, buildVars, tallyVars, convVars>>

\* The normalizer is not running.
NormIdle ==
    /\ input = <<>> /\ bytes = <<>> /\ i = 0 /\ out = <<>> /\ pc = "idle"
    /\ rule = "none" /\ at = 0 /\ outAt = <<>> /\ pass = 1 /\ first = <<>>

\* The format extractor is not running.
FmtIdle == fmtInput = <<>> /\ fi = 0 /\ info = DefaultInfo /\ fpc = "idle"

\* No text builder has been made.
BuildIdle ==
    /\ builder = None /\ dtext = None /\ scales = 0 /\ xml = None /\ xmlOf = None
    /\ built = None /\ applied = <<>> /\ bounds = None

\* No conversion is running.
TallyIdle ==
    /\ entities = <<>> /\ objects = <<>> /\ visited = 0 /\ counts = ZeroCounts
    /\ stats = None /\ elmt = None /\ tpc = "idle"

\* convert_dxf_file has not been called.
ConvIdle ==
    /\ file = NoFile /\ verbose = FALSE /\ loads = FALSE
    /\ fsys = <<>> /\ log = <<>> /\ result = None

\* ------------------------------------------------ normalize_mtext: inputs

\* '\', ';', '{', '}', 'P', '~', 'X' and the two-byte letter U+00E9.
NormAlphabet == {Ch.bslash, Ch.semi, Ch.lbrace, Ch.rbrace, Ch.P, Ch.tilde, 88, 233}

\* \Xabc
UnterminatedExample == <<92, 88, 97, 98, 99>>

\* A\Ptext\~B
EscapeExample == <<65, 92, 80, 116, 101, 120, 116, 92, 126, 66>>

\* \\{\X}a
BracesExample == <<92, 92, 123, 92, 88, 125, 97>>

\* {\fArial|b0;Hi}  and  a}b;\W0.8;c-d;e
NormExamples ==
    { UnterminatedExample, EscapeExample, BracesExample,
      <<123, 92, 102, 65, 114, 105, 97, 108, 124, 98, 48, 59, 72, 105, 125>>,
      <<97, 125, 98, 59, 92, 87, 48, 46, 56, 59, 99, 45, 100, 59, 101>> }

NormInputs == Strs(NormAlphabet, MaxLen) \cup NormExamples

\* ----------------------------------------------- normalize_mtext: actions

NormInit ==
    /\ input \in NormInputs
    /\ bytes = <<>> /\ i = 0 /\ out = <<>> /\ pc = "call"
    /\ rule = "none" /\ at = 0 /\ outAt = <<>> /\ pass = 1 /\ first = <<>>
    /\ FmtIdle /\ BuildIdle /\ TallyIdle /\ ConvIdle

\* Lines 22-34: find the first ';', slice, start with an empty output.
NormBegin ==
    /\ pc = "call"
    /\ bytes' = TextPart(input)
    /\ i' = 0 /\ out' = <<>> /\ pc' = "loop"
    /\ rule' = "none" /\ at' = 0 /\ outAt' = <<>>
    /\ UNCHANGED <<input, pass, first>>
    /\ UNCHANGED <<fmtVars, buildVars, tallyVars, convVars>>

\* Lines 36-110: one iteration of the outer loop.
NormIterate ==
    /\ pc = "loop" /\ i < Len(bytes)
    /\ LET s == ScanStep(bytes, i, out) IN
       /\ i' = s.i /\ out' = s.out /\ rule' = s.rule
    /\ at' = i /\ outAt' = out
    /\ UNCHANGED <<input, bytes, pc, pass, first>>
    /\ UNCHANGED <<fmtVars, buildVars, tallyVars, convVars>>

\* Line 112: the loop condition fails and the output is returned.
NormReturn ==
    /\ pc = "loop" /\ i >= Len(bytes)
    /\ pc' = "done"
    /\ UNCHANGED <<input, bytes, i, out, rule, at, outAt, pass, first>>
    /\ UNCHANGED <<fmtVars, buildVars, tallyVars, convVars>>

\* The returned string is normalized once more: normalize(normalize(s)).
NormAgain ==
    /\ pc = "done" /\ pass = 1
    /\ input' = out /\ first' = out /\ pass' = 2 /\ pc' = "call"
    /\ UNCHANGED <<bytes, i, out, rule, at, outAt>>
    /\ UNCHANGED <<fmtVars, buildVars, tallyVars, convVars>>

NormNext == NormBegin \/ NormIterate \/ NormReturn \/ NormAgain

SpecNorm == NormInit /\ [][NormNext]_vars

\* ------------------------------------------- extract_mtext_format: inputs

\* Most later fields of a block drawn exhaustively.
MaxFields == 2

\* {\fGaramond|b0|i1|c2|p18;ignored}
GaramondExample ==
    <<123, 92, 102, 71, 97, 114, 97, 109, 111, 110, 100, 124, 98, 48, 124, 105,
      49, 124, 99, 50, 124, 112, 49, 56, 59, 105, 103, 110, 111, 114, 101, 100, 125>>

\* What may precede the marker: nothing, "{", "a\".
FmtPrefixes == { <<>>, <<123>>, <<97, 92>> }

\* First fields: "", "\u{a0}{G} ", "{ \u{e0}" (a-grave, whose UTF-8 ends in the
\* byte 0xA0).
FmtFamilies == { <<>>, <<160, 123, 71, 125, 32>>, <<123, 32, 224>> }

\* Later fields: b1 b0 i2 "\u{3000}i0 " c2 p1.5 p1e1 bx "" z9.
FmtFields ==
    { <<98, 49>>, <<98, 48>>, <<105, 50>>, <<12288, 105, 48, 32>>, <<99, 50>>,
      <<112, 49, 46, 53>>, <<112, 49, 101, 49>>, <<98, 120>>, <<>>, <<122, 57>> }

\* What may follow the block: nothing, or a second block "\fH|b1|i1|c7|p9;".
FmtSuffixes ==
    { <<>>,
      <<92, 102, 72, 124, 98, 49, 124, 105, 49, 124, 99, 55, 124, 112, 57, 59>> }

\* The fields, each behind its '|'.
RECURSIVE JoinFields(_)
JoinFields(fs) ==
    IF fs = <<>> THEN <<>> ELSE <<Ch.pipe>> \o Head(fs) \o JoinFields(Tail(fs))

\* prefix \f family |field ... [;] suffix
FmtBlocks ==
    { pre \o <<Ch.bslash, Ch.f>> \o fam \o JoinFields(fs) \o term \o suf :
        pre \in FmtPrefixes, fam \in FmtFamilies, fs \in Strs(FmtFields, MaxFields),
        term \in {<<>>, <<Ch.semi>>}, suf \in FmtSuffixes }

\* Short strings over '\', 'f', ';', 'p', '1', with or without a marker.
FmtInputs ==
    FmtBlocks \cup Strs({Ch.bslash, Ch.f, Ch.semi, Ch.p, 49}, MaxLen) \cup {GaramondExample}

\* ------------------------------------------ extract_mtext_format: actions

\* Lines 130-132: default info, cursor 0.
FmtInit ==
    /\ fmtInput \in FmtInputs
    /\ fi = 0 /\ info = DefaultInfo /\ fpc = "loop"
    /\ NormIdle /\ BuildIdle /\ TallyIdle /\ ConvIdle

\* Lines 134-189: one iteration of the outer loop.
FmtIterate ==
    /\ fpc = "loop" /\ fi + 2 < Len(Utf8(fmtInput))
    /\ \E s \in {ExtractStep(Utf8(fmtInput), fi, info)} :
       /\ fi' = s.i /\ info' = s.info
       /\ fpc' = IF s.break THEN "done" ELSE "loop"
    /\ UNCHANGED fmtInput
    /\ UNCHANGED <<normVars, buildVars, tallyVars, convVars>>

\* Line 191: the loop condition fails and info is returned.
FmtReturn ==
    /\ fpc = "loop" /\ ~(fi + 2 < Len(Utf8(fmtInput)))
    /\ fpc' = "done"
    /\ UNCHANGED <<fmtInput, fi, info>>
    /\ UNCHANGED <<normVars, buildVars, tallyVars, convVars>>

FmtNext == FmtIterate \/ FmtReturn

SpecFmt == FmtInit /\ [][FmtNext]_vars

\* ------------------------------------- both functions on arbitrary strings

MaxTotalLen == 3

\* '\', ';', '{', 'f', 'P', '|', the two-byte letter U+00E9 and the four-byte
\* U+1F600.
TotalAlphabet == {Ch.bslash, Ch.semi, Ch.lbrace, Ch.f, Ch.P, Ch.pipe, 233, 128512}

TotalInputs == Strs(TotalAlphabet, MaxTotalLen)

\* Either function has just been called on a string.
TotalInit ==
    \/ /\ input \in TotalInputs
       /\ bytes = <<>> /\ i = 0 /\ out = <<>> /\ pc = "call"
       /\ rule = "none" /\ at = 0 /\ outAt = <<>> /\ pass = 1 /\ first = <<>>
       /\ FmtIdle /\ BuildIdle /\ TallyIdle /\ ConvIdle
    \/ /\ fmtInput \in TotalInputs
       /\ fi = 0 /\ info = DefaultInfo /\ fpc = "loop"
       /\ NormIdle /\ BuildIdle /\ TallyIdle /\ ConvIdle

TotalNext == NormBegin \/ NormIterate \/ NormReturn \/ FmtIterate \/ FmtReturn

\* A call that has begun keeps running: the code is sequential.
SpecTotal == TotalInit /\ [][TotalNext]_vars /\ WF_vars(TotalNext)

\* ------------------------------------------------------ DTextBuilder: inputs

\* Most scale calls made on one text object.
MaxScales == 2

\* Rotations in quarter degrees: within 0.75 of -360, 0, 360 and 720, and 180,
\* 90.5 and -45; the rotations 0.4 and 359.6; 2^42 and 2^42 - 180 degrees,
\* which are no multiples of 360, and 360 * 2^39 = 45 * 2^42 and 2^42 - 64 of
\* either sign, which are; 2^63
\* degrees, which is no multiple of 360, and 360 * 2^60 = 45 * 2^63 of either
\* sign, which is; the positive infinity, and NaN.
RotQuarters == { 1440 * m + d : m \in -1..2, d \in -3..3 } \cup {720, 362, -180}
Rotations ==
    { Deg(q * (Unit \div 4)) : q \in RotQuarters }
    \cup { Deg((2 * Unit) \div 5), Deg(359 * Unit + (3 * Unit) \div 5) }
    \cup { DegBig(1), DegBig(45), DegBig(-45) }
    \cup { DegBigOff(1, -180), DegBigOff(1, -64), DegBigOff(-1, 64) }
    \cup { DegHuge(1), DegHuge(45), DegHuge(-45), DegInf(1), DegNaN }

\* The HAlignment and VAlignment are those the From impls of the source
\* justification or attachment point gave.
BaseEntity ==
    [ kind |-> "Text", value |-> <<72, 105>>, extended_text |-> <<>>,
      x |-> 10 * Unit + Unit \div 4, y |-> 3 * Unit, z |-> 0,
      rotation |-> Deg(0), text_style_name |-> "STANDARD", text_height |-> 12 * Unit,
      h_alignment |-> "Left", v_alignment |-> "Top",
      reference_rectangle_width |-> 0 ]

EntityKinds == {"Text", "MText", "Attrib"}

\* Hi   {\fG|c2;A\PB}   \fG|c0;x   \fG|c256|b1;x   a;b   e U+0301 U+00E9
\* a Hangul L and V, man ZWJ woman, and the flag CH (three clusters)
\* a U+0897, then ka virama ZWNJ ka (three clusters)
\* \fG|c255|i1;\~   \fG|c-1;x
BuildTexts ==
    { <<72, 105>>,
      <<123, 92, 102, 71, 124, 99, 50, 59, 65, 92, 80, 66, 125>>,
      <<92, 102, 71, 124, 99, 48, 59, 120>>,
      <<92, 102, 71, 124, 99, 50, 53, 54, 124, 98, 49, 59, 120>>,
      <<97, 59, 98>>,
      <<101, 769, 233>>,
      <<4352, 4449, 128104, 8205, 128105, 127464, 127469>>,
      <<97, 2199, 2325, 2381, 8204, 2325>>,
      <<92, 102, 71, 124, 99, 50, 53, 53, 124, 105, 49, 59, 92, 126>>,
      <<92, 102, 71, 124, 99, 45, 49, 59, 120>> }

\* Overflow chunks of a multi-line text: none, or "{\fH|c7;" and "ab;".
BuildChunks ==
    { <<>>, << <<123, 92, 102, 72, 124, 99, 55, 59>>, <<97, 98, 59>> >> }

\* Reference rectangle widths: unset, exactly 2.0, and 2.5.
RefWidths == { 0, 2 * Unit, 2 * Unit + Unit \div 2 }

\* Text heights: 2.5 and 12.
TextHeights == { 2 * Unit + Unit \div 2, 12 * Unit }

RotEntities ==
    { [BaseEntity EXCEPT !.kind = k, !.rotation = r] : k \in EntityKinds, r \in Rotations }

\* Every text at every alignment and width, of height 12 and without overflow
\* chunks.
TextEntities ==
    { [BaseEntity EXCEPT !.kind = k, !.value = v, !.h_alignment = h,
                         !.reference_rectangle_width = w] :
        k \in EntityKinds, v \in BuildTexts,
        h \in {"Left", "Center", "Right"}, w \in RefWidths }

\* Every text at every height, with and without overflow chunks.
ChunkEntities ==
    { [BaseEntity EXCEPT !.kind = k, !.value = v, !.extended_text = c,
                         !.text_height = t] :
        k \in EntityKinds, v \in BuildTexts, c \in BuildChunks, t \in TextHeights }

\* Only a multi-line text has overflow chunks and a reference rectangle.
BuildEntities ==
    { e \in RotEntities \cup TextEntities \cup ChunkEntities :
        e.kind # "MText" => e.extended_text = <<>> /\ e.reference_rectangle_width = 0 }

\* Colors a caller hands to the builder.
GivenColors == { [ctor |-> "given", arg |-> 1], [ctor |-> "given", arg |-> 2] }

\* The values Uuid::new_v4() may draw.
Uuids == {"uuid-a", "uuid-b"}

\* Scale factors (fx, fy): (2, 2) and (1/2, 3).
ScaleFactors ==
    { <<[num |-> 2, den |-> 1], [num |-> 2, den |-> 1]>>,
      <<[num |-> 1, den |-> 2], [num |-> 3, den |-> 1]>> }

\* ----------------------------------------------------- DTextBuilder: actions

\* Lines 326-345: from_text, from_mtext, from_attrib.
BuildInit ==
    /\ builder \in { Some([text |-> e, color |-> None]) : e \in BuildEntities }
    /\ dtext = None /\ scales = 0 /\ xml = None /\ xmlOf = None
    /\ built = None /\ applied = <<>> /\ bounds = None
    /\ NormIdle /\ FmtIdle /\ TallyIdle /\ ConvIdle

\* Lines 347-352: DTextBuilder::color.
BuilderColor ==
    /\ builder # None /\ dtext = None
    /\ \E c \in GivenColors : builder' = Some([builder[1] EXCEPT !.color = Some(c)])
    /\ UNCHANGED <<dtext, scales, xml, xmlOf, built, applied, bounds>>
    /\ UNCHANGED <<normVars, fmtVars, tallyVars, convVars>>

\* Lines 357-548: DTextBuilder::build.
BuilderBuild ==
    /\ builder # None /\ dtext = None
    /\ \E u \in Uuids : dtext' = Some(Build(builder[1], u))
    /\ built' = dtext'
    /\ UNCHANGED <<builder, scales, xml, xmlOf, applied, bounds>>
    /\ UNCHANGED <<normVars, fmtVars, tallyVars, convVars>>

\* Lines 294-299: DynamicText::scale.
TextScale ==
    /\ dtext # None /\ scales < MaxScales
    /\ \E f \in ScaleFactors :
          /\ dtext' = Some(Scale(dtext[1], f[1], f[2]))
          /\ applied' = Append(applied, f)
    /\ scales' = scales + 1
    /\ UNCHANGED <<builder, xml, xmlOf, built, bounds>>
    /\ UNCHANGED <<normVars, fmtVars, tallyVars, convVars>>

\* Lines 216-290: XMLElement::from(&DynamicText).
TextToXml ==
    /\ dtext # None
    /\ xml' = Some(ToXml(dtext[1])) /\ xmlOf' = dtext
    /\ UNCHANGED <<builder, dtext, scales, built, applied, bounds>>
    /\ UNCHANGED <<normVars, fmtVars, tallyVars, convVars>>

\* Lines 301-317: left_bound, right_bound, top_bound and bot_bound are asked.
TextBounds ==
    /\ dtext # None
    /\ bounds' = Some(Bounds(dtext[1]))
    /\ UNCHANGED <<builder, dtext, scales, xml, xmlOf, built, applied>>
    /\ UNCHANGED <<normVars, fmtVars, tallyVars, convVars>>

BuildNext == BuilderColor \/ BuilderBuild \/ TextScale \/ TextToXml \/ TextBounds

SpecBuild == BuildInit /\ [][BuildNext]_vars

\* ------------------------------------------------------ the tallies: inputs

MaxEntities == 2
MaxNodes == 3

\* The variants of EntityType the match names, and three it does not.
EntityTypes ==
    { "Circle", "Line", "Arc", "Spline", "Text", "Ellipse", "Polyline",
      "LwPolyline", "Solid", "Insert", "MText", "Attrib", "Dimension" }

EntityStreams == Strs(EntityTypes, MaxEntities)

\* The variants of qelmt::Objects that hold no objects.
LeafKinds == { "Arc", "Ellipse", "Polygon", "DynamicText", "Text", "Line" }

Leaf(k) == [kind |-> k, objects |-> <<>>]
Group(f) == [kind |-> "Group", objects |-> f]

\* The lists of objects of exactly n objects in all, nested ones included.
RECURSIVE ForestsOfSize(_)
ForestsOfSize(n) ==
    IF n = 0 THEN { <<>> }
    ELSE UNION { { <<t>> \o f :
                     t \in (IF k = 1 THEN { Leaf(l) : l \in LeafKinds } \cup { Group(<<>>) }
                            ELSE { Group(g) : g \in ForestsOfSize(k - 1) }),
                     f \in ForestsOfSize(n - k) } : k \in 1..n }

Forests == UNION { ForestsOfSize(n) : n \in 0..MaxNodes }

\* 2 circles, 3 lines, 1 simple text and 1 block insert, and what they become.
ScenarioDrawing ==
    [ entities |-> <<"Circle", "Line", "Text", "Line", "Insert", "Circle", "Line">>,
      objects |-> << Leaf("Ellipse"), Leaf("Line"), Leaf("DynamicText"), Leaf("Line"),
                     Group(<<>>), Leaf("Ellipse"), Leaf("Line") >> ]

\* A block in a block, a multi-line text, a spline and an arc.
NestedDrawing ==
    [ entities |-> <<"Insert", "MText", "Spline", "Arc">>,
      objects |-> << Group(<< Leaf("Text"), Group(<< Leaf("Line"), Leaf("Arc") >>),
                              Leaf("Polygon") >>),
                     Leaf("DynamicText"), Leaf("Polygon"), Leaf("Arc") >> ]

\* Definition::new is not part of these sources: the entity streams and the
\* object lists are drawn apart, and together in the two drawings above.
Drawings ==
    { [entities |-> e, objects |-> <<>>] : e \in EntityStreams }
    \cup { [entities |-> <<>>, objects |-> f] : f \in Forests }
    \cup { ScenarioDrawing, NestedDrawing }

\* ----------------------------------------------------- the tallies: actions

\* lib.rs lines 73-90: the drawing is loaded, the definition made, the counters zeroed.
TallyInit ==
    /\ \E d \in Drawings : entities = d.entities /\ objects = d.objects
    /\ visited = 0 /\ counts = ZeroCounts /\ stats = None /\ elmt = None
    /\ tpc = "count"
    /\ NormIdle /\ FmtIdle /\ BuildIdle /\ ConvIdle

\* lib.rs lines 93-105: for_each visits the next entity.
TallyVisit ==
    /\ tpc = "count" /\ visited < Len(entities)
    /\ counts' = CountEntity(counts, entities[visited + 1])
    /\ visited' = visited + 1
    /\ UNCHANGED <<entities, objects, stats, elmt, tpc>>
    /\ UNCHANGED <<normVars, fmtVars, buildVars, convVars>>

\* lib.rs lines 116-129: the stats are made once every entity has been visited.
TallyStats ==
    /\ tpc = "count" /\ visited = Len(entities)
    /\ stats' = Some(ConversionStats(counts))
    /\ tpc' = "stats"
    /\ UNCHANGED <<entities, objects, visited, counts, elmt>>
    /\ UNCHANGED <<normVars, fmtVars, buildVars, convVars>>

\* lib.rs lines 158-186: write_text_log walks the objects of the description.
TallyObjects ==
    /\ tpc = "stats"
    /\ elmt' = Some(count_objects_recursive(objects, ZeroElmt))
    /\ tpc' = "logged"
    /\ UNCHANGED <<entities, objects, visited, counts, stats>>
    /\ UNCHANGED <<normVars, fmtVars, buildVars, convVars>>

TallyNext == TallyVisit \/ TallyStats \/ TallyObjects

SpecTally == TallyInit /\ [][TallyNext]_vars

\* ------------------------------------------------- XML emission: inputs

\* The names a caller may have given to the public field info_name.
InfoNames == { None, Some("label"), Some("") }

\* Simple texts of height 12, built, with the two public fields as a caller
\* may have set them.
XmlTexts ==
    { [Build([text |-> e, color |-> None], "uuid-a")
          EXCEPT !.info_name = n, !.keep_visual_rotation = k] :
        e \in { t \in TextEntities : t.kind = "Text" /\ t.text_height = 12 * Unit
                                      /\ t.extended_text = <<>>
                                      /\ t.reference_rectangle_width = 0 },
        n \in InfoNames, k \in BOOLEAN }

\* A text object is at hand, however its fields were set.
XmlInit ==
    /\ dtext \in { Some(t) : t \in XmlTexts }
    /\ built = dtext /\ builder = None /\ scales = 0 /\ applied = <<>>
    /\ xml = None /\ xmlOf = None /\ bounds = None
    /\ NormIdle /\ FmtIdle /\ TallyIdle /\ ConvIdle

XmlNext == TextScale \/ TextToXml \/ TextBounds

SpecXml == XmlInit /\ [][XmlNext]_vars

\* ------------------------------------------------ convert_dxf_file: inputs

InputFiles ==
    { [path |-> "plans/motor.dxf", stem |-> "motor", log |-> "plans/motor.log"],
      [path |-> "noext", stem |-> "noext", log |-> "noext.log"] }

\* The objects of a list, each with its place in the tree for identity.
RECURSIVE Labelled(_, _)
Labelled(f, prefix) ==
    [ k \in 1..Len(f) |->
        [ kind |-> f[k].kind, id |-> Append(prefix, k),
          objects |-> Labelled(f[k].objects, Append(prefix, k)) ] ]

\* No entity, and a circle, a multi-line text (unsupported) and a block insert.
ConvStreams == { <<>>, <<"Circle", "MText", "Insert">> }

ConvDrawings ==
    { [entities |-> e, objects |-> Labelled(f, <<>>)] : e \in ConvStreams, f \in Forests }

ConvExamples ==
    { [entities |-> d.entities, objects |-> Labelled(d.objects, <<>>)] :
        d \in {ScenarioDrawing, NestedDrawing} }

\* ----------------------------------------------- convert_dxf_file: actions

\* lib.rs lines 61-70: the call, on a file that will load or will not.
ConvInit ==
    /\ \/ /\ file = [path |-> "plans/motor.dxf", stem |-> "motor", log |-> "plans/motor.log"]
          /\ verbose = FALSE /\ loads = TRUE
          /\ \E d \in ConvDrawings : entities = d.entities /\ objects = d.objects
       \/ /\ file \in InputFiles /\ verbose \in BOOLEAN /\ loads = TRUE
          /\ \E d \in ConvExamples : entities = d.entities /\ objects = d.objects
       \/ /\ file \in InputFiles /\ verbose \in BOOLEAN /\ loads = FALSE
          /\ entities = <<>> /\ objects = <<>>
    /\ visited = 0 /\ counts = ZeroCounts /\ stats = None /\ elmt = None
    /\ tpc = "start"
    /\ fsys = <<>> /\ log = <<>> /\ result = None
    /\ NormIdle /\ FmtIdle /\ BuildIdle

\* Mutant: the output file is created before the drawing is loaded.
ConvLoadAfterCreate ==
    /\ tpc = "start"
    /\ fsys' = Append(fsys, [op |-> "create", file |-> "elmt", ok |-> TRUE])
    /\ IF loads
       THEN tpc' = "loaded" /\ UNCHANGED result
       ELSE tpc' = "returned" /\ result' = Some(LoadError(file))
    /\ UNCHANGED <<entities, objects, visited, counts, stats, elmt>>
    /\ UNCHANGED <<file, verbose, loads, log>>
    /\ UNCHANGED <<normVars, fmtVars, buildVars>>

\* lib.rs lines 73-77: Drawing::load_file, and Definition::new when it loaded.
ConvLoad ==
    /\ tpc = "start"
    /\ IF loads
       THEN tpc' = "loaded" /\ UNCHANGED result
       ELSE tpc' = "returned" /\ result' = Some(LoadError(file))
    /\ UNCHANGED <<entities, objects, visited, counts, stats, elmt>>
    /\ UNCHANGED <<file, verbose, loads, fsys, log>>
    /\ UNCHANGED <<normVars, fmtVars, buildVars>>

\* lib.rs lines 80-105: the counters, and for_each over the entities.
ConvCount ==
    /\ tpc = "loaded"
    /\ counts' = CountEntities(entities, ZeroCounts)
    /\ visited' = Len(entities)
    /\ tpc' = "counted"
    /\ UNCHANGED <<entities, objects, stats, elmt>>
    /\ UNCHANGED convVars
    /\ UNCHANGED <<normVars, fmtVars, buildVars>>

\* lib.rs lines 108-129: the XML is generated and the stats are made.
ConvStats ==
    /\ tpc = "counted"
    /\ stats' = Some(ConversionStats(counts))
    /\ tpc' = "emitted"
    /\ UNCHANGED <<entities, objects, visited, counts, elmt>>
    /\ UNCHANGED convVars
    /\ UNCHANGED <<normVars, fmtVars, buildVars>>

\* lib.rs line 133: file_writer::create_file, which may fail.
ConvCreateFile ==
    /\ tpc = "emitted" /\ ~verbose
    /\ \E done \in BOOLEAN :
         IF done
         THEN /\ fsys' = Append(fsys, [op |-> "create", file |-> "elmt", ok |-> TRUE])
              /\ tpc' = "created" /\ UNCHANGED result
         ELSE /\ result' = Some(Err(Message("{}", "create_file error")))
              /\ tpc' = "returned" /\ UNCHANGED fsys
    /\ UNCHANGED <<entities, objects, visited, counts, stats, elmt>>
    /\ UNCHANGED <<file, verbose, loads, log>>
    /\ UNCHANGED <<normVars, fmtVars, buildVars>>

\* lib.rs lines 134-136: out_xml.write, which may fail.
ConvWriteFile ==
    /\ tpc = "created"
    /\ \E done \in BOOLEAN :
         /\ fsys' = Append(fsys, [op |-> "write", file |-> "elmt", ok |-> done])
         /\ IF done
            THEN tpc' = "written" /\ UNCHANGED result
            ELSE /\ result' = Some(Err(Message("Failed to write output file.", "")))
                 /\ tpc' = "returned"
    /\ UNCHANGED <<entities, objects, visited, counts, stats, elmt>>
    /\ UNCHANGED <<file, verbose, loads, log>>
    /\ UNCHANGED <<normVars, fmtVars, buildVars>>

\* lib.rs lines 139 and 153-155: write_text_log creates the log file, or fails.
ConvLogCreate ==
    /\ tpc = "written"
    /\ \E done \in BOOLEAN :
         IF done
         THEN /\ fsys' = Append(fsys, [op |-> "create", file |-> "log", ok |-> TRUE])
              /\ tpc' = "logging" /\ UNCHANGED result
         ELSE /\ result' = Some(Err(Message("Failed to create log file: {}", file.log)))
              /\ tpc' = "returned" /\ UNCHANGED fsys
    /\ UNCHANGED <<entities, objects, visited, counts, stats, elmt>>
    /\ UNCHANGED <<file, verbose, loads, log>>
    /\ UNCHANGED <<normVars, fmtVars, buildVars>>

\* lib.rs lines 158-298: the objects are counted and the log is written; any
\* writeln! may fail, and what was written before it stays in the file.
ConvLogWrite ==
    /\ tpc = "logging"
    /\ elmt' = Some(count_objects_recursive(objects, ZeroElmt))
    /\ LET all == LogEntries(objects, stats[1], elmt'[1]) IN
       \E n \in 0..Len(all) :
         /\ log' = SubSeq(all, 1, n)
         /\ fsys' = Append(fsys, [op |-> "write", file |-> "log", ok |-> n = Len(all)])
         /\ IF n = Len(all)
            THEN tpc' = "logged" /\ UNCHANGED result
            ELSE /\ result' = Some(Err(Message("{}", "io error")))
                 /\ tpc' = "returned"
    /\ UNCHANGED <<entities, objects, visited, counts, stats>>
    /\ UNCHANGED <<file, verbose, loads>>
    /\ UNCHANGED <<normVars, fmtVars, buildVars>>

\* lib.rs lines 142-147: Ok(ConversionResult).
ConvReturn ==
    /\ \/ tpc = "emitted" /\ verbose
       \/ tpc = "logged"
    /\ result' = Some(Success(file, stats, verbose, objects))
    /\ tpc' = "returned"
    /\ UNCHANGED <<entities, objects, visited, counts, stats, elmt>>
    /\ UNCHANGED <<file, verbose, loads, fsys, log>>
    /\ UNCHANGED <<normVars, fmtVars, buildVars>>

ConvNext ==
    \/ ConvLoad \/ ConvCount \/ ConvStats \/ ConvCreateFile \/ ConvWriteFile
    \/ ConvLogCreate \/ ConvLogWrite \/ ConvReturn

SpecConvert == ConvInit /\ [][ConvNext]_vars

\* =========================================================== the claims

\* ---------------------------------------------------------------- C1

\* Where a run of code bytes entered at cursor k ends: the first cursor at or
\* after k that is the end of the input or holds a byte that is no code byte.
RunEnd(bs, k) ==
    CHOOSE e \in k..Len(bs) :
        /\ \A j \in k..(e - 1) : IsCodeByte(bs[j + 1])
        /\ e = Len(bs) \/ ~IsCodeByte(bs[e + 1])

\* The last iteration took the formatting-code branch.
AtCode == pc \in {"loop", "done"} /\ rule = "code"

\* C1: a candidate formatting code (backslash, letter, run of code bytes) is
\* dropped, terminator included, only when a ';' ends its run; when anything
\* else ends the run, a disqualifying byte or the end of the input, the whole
\* consumed span is copied to the output, as in normalize("\Xabc") = "\Xabc".
C1_UnterminatedCodeIsCopied ==
    /\ AtCode =>
         LET e == RunEnd(bytes, at + 2) IN
         IF e < Len(bytes) /\ bytes[e + 1] = Ch.semi
         THEN i = e + 1 /\ out = outAt
         ELSE i = e /\ out = outAt \o SubSeq(bytes, at + 1, e)
    /\ (pc = "done" /\ pass = 1 /\ input = UnterminatedExample)
         => out = UnterminatedExample

\* ---------------------------------------------------------------- C2

HasBackslash(s) == \E k \in 1..Len(s) : s[k] = Ch.bslash

\* normalize(normalize(s)) has been computed; `first` is normalize(s).
TwiceDone == pass = 2 /\ pc = "done"

\* C2 as stated: whenever normalize(s) holds no escape marker (no backslash;
\* it never holds a brace), normalize(normalize(s)) = normalize(s).
C2_IdempotentWithoutEscapes ==
    (TwiceDone /\ ~HasBackslash(first)) => out = first

\* A string the second pass has nothing to do with: no backslash, no ';', ASCII.
PlainAscii(s) ==
    \A k \in 1..Len(s) : s[k] < 128 /\ s[k] # Ch.bslash /\ s[k] # Ch.semi

\* C2, amended: whenever normalize(s) holds no backslash, no ';' and only
\* ASCII characters, normalize(normalize(s)) = normalize(s).
C2_IdempotentOnPlainAscii ==
    (TwiceDone /\ PlainAscii(first)) => out = first

\* A second pass over a plain result that pass 1 had to work for: it holds the
\* newline of a \P and the space of a \~.
C2_Witness ==
    /\ TwiceDone /\ PlainAscii(first) /\ out = first
    /\ \E k \in 1..Len(first) : first[k] = Ch.nl
    /\ \E k \in 1..Len(first) : first[k] = Ch.sp

\* ---------------------------------------------------------------- C3

HasSemicolon(bs) == \E k \in 1..Len(bs) : bs[k] = Ch.semi

\* bs is what follows the first ';' of whole, or all of whole when it has none.
AfterFirstSemicolon(bs, whole) ==
    IF HasSemicolon(whole)
    THEN \E k \in 1..Len(whole) :
            /\ whole[k] = Ch.semi
            /\ \A j \in 1..(k - 1) : whole[j] # Ch.semi
            /\ bs = SubSeq(whole, k + 1, Len(whole))
    ELSE bs = whole

\* C3: the scanned text is the input after its first ';' (the prefix and that
\* ';' are discarded), or the whole input when it has no ';'; the scan starts
\* at the first byte of it; and a ';' the scan meets outside a formatting code
\* is copied to the output.
C3_OnlyFirstSemicolonTruncates ==
    /\ pc \in {"loop", "done"} => AfterFirstSemicolon(bytes, Utf8(input))
    /\ (pc = "loop" /\ rule = "none") => i = 0 /\ out = <<>>
    /\ (pc \in {"loop", "done"} /\ rule # "none" /\ bytes[at + 1] = Ch.semi)
         => i = at + 1 /\ out = Append(outAt, Ch.semi)

\* A first ';' has truncated the input and a later one has just been copied.
C3_Witness ==
    /\ pc = "done" /\ pass = 1
    /\ HasSemicolon(Utf8(input)) /\ Len(bytes) < Len(Utf8(input)) - 1
    /\ rule = "plain" /\ bytes[at + 1] = Ch.semi
    /\ out[Len(out)] = Ch.semi

\* ---------------------------------------------------------------- C4

\* An iteration has run from cursor `at` on the byte b, followed by n (-1: none).
Stepped == pc \in {"loop", "done"} /\ rule # "none"
ByteAt == bytes[at + 1]
NextAt == IF at + 1 < Len(bytes) THEN bytes[at + 2] ELSE -1

\* A\Ptext\~B normalizes to A, newline, text, space, B.
EscapeExampleOut == <<65, 10, 116, 101, 120, 116, 32, 66>>

\* C4: at a backslash the scan turns \P into a newline, \~ into a space and \\
\* into one backslash, each consuming two bytes and before any formatting code
\* is tried; a backslash followed by anything else that is no letter, or by
\* nothing, is emitted literally; and normalize("A\Ptext\~B") = "A\ntext B".
C4_ControlCodes ==
    /\ (Stepped /\ ByteAt = Ch.bslash) =>
         /\ NextAt = Ch.P => i = at + 2 /\ out = Append(outAt, Ch.nl)
         /\ NextAt = Ch.tilde => i = at + 2 /\ out = Append(outAt, Ch.sp)
         /\ NextAt = Ch.bslash => i = at + 2 /\ out = Append(outAt, Ch.bslash)
         /\ (NextAt = -1 \/ (NextAt \notin {Ch.P, Ch.tilde, Ch.bslash}
                             /\ ~IsAlphabetic(NextAt)))
              => i = at + 1 /\ out = Append(outAt, Ch.bslash)
    /\ (pc = "done" /\ pass = 1 /\ input = EscapeExample) => out = EscapeExampleOut

\* The example, with its \P and its \~, has been normalized.
C4_Witness ==
    /\ pc = "done" /\ pass = 1 /\ input = EscapeExample
    /\ out = EscapeExampleOut

\* ---------------------------------------------------------------- C5

\* The parse is stated on the characters of the text, not on its bytes.
\* The cursor of the first backslash-'f' of bs, or -1 when it has none.
FirstMarker(bs) ==
    LET M == {k \in 0..(Len(bs) - 2) : bs[k + 1] = Ch.bslash /\ bs[k + 2] = Ch.f} IN
    IF M = {} THEN -1 ELSE CHOOSE k \in M : \A j \in M : k <= j

\* The text between the marker at cursor k and the next ';' (or the end).
BlockOf(bs, k) ==
    LET S == {e \in (k + 2)..(Len(bs) - 1) : bs[e + 1] = Ch.semi}
        e == IF S = {} THEN Len(bs) ELSE CHOOSE e \in S : \A j \in S : e <= j
    IN SubSeq(bs, k + 3, e)

\* The '|'-separated fields of a block, by the places of its '|'.
Pipes(block) == {k \in 1..Len(block) : block[k] = Ch.pipe}
NumFields(block) == Cardinality(Pipes(block)) + 1
NthPipe(block, n) ==
    IF n = 0 THEN 0
    ELSE IF n > Cardinality(Pipes(block)) THEN Len(block) + 1
    ELSE CHOOSE k \in Pipes(block) : Cardinality({j \in Pipes(block) : j < k}) = n - 1
FieldOf(block, n) == SubSeq(block, NthPipe(block, n - 1) + 1, NthPipe(block, n) - 1)

\* s without its leading and trailing characters of set.
Stripped(s, set) ==
    LET K == {k \in 1..Len(s) : s[k] \notin set} IN
    IF K = {} THEN <<>>
    ELSE SubSeq(s, CHOOSE a \in K : \A k \in K : a <= k, CHOOSE b \in K : \A k \in K : k <= b)

\* What follows the letter in the n-th field, the field read without the
\* whitespace around it; empty when the field is not that letter and something.
Operand(block, n, letter) ==
    LET fld == Stripped(FieldOf(block, n), Whitespace) IN
    IF Len(fld) >= 2 /\ fld[1] = letter THEN Tail(fld) ELSE <<>>

\* The last later field that is letter<int> (letter<float> for 'p'), or 0.
LastGood(block, letter) ==
    LET good(n) == /\ Operand(block, n, letter) # <<>>
                   /\ IF letter = Ch.p THEN ParseF64(Operand(block, n, letter)) # None
                      ELSE ParseI32(Operand(block, n, letter)) # None
        N == {n \in 2..NumFields(block) : good(n)}
    IN IF N = {} THEN 0 ELSE CHOOSE n \in N : \A m \in N : m <= n

\* The parse of the first block of bs, field by field.
ExpectedInfo(bs) ==
    IF FirstMarker(bs) = -1 THEN DefaultInfo
    ELSE LET block == BlockOf(bs, FirstMarker(bs))
             fam == Stripped(Stripped(FieldOf(block, 1), Whitespace), Braces)
             int(letter) == ParseI32(Operand(block, LastGood(block, letter), letter))[1]
         IN [ family |-> IF fam = <<>> THEN None ELSE Some(fam),
              bold |-> LastGood(block, Ch.b) # 0 /\ int(Ch.b) # 0,
              italic |-> LastGood(block, Ch.i) # 0 /\ int(Ch.i) # 0,
              color_index |-> IF LastGood(block, Ch.c) # 0 THEN Some(int(Ch.c)) ELSE None,
              point_size |-> IF LastGood(block, Ch.p) # 0
                             THEN ParseF64(Operand(block, LastGood(block, Ch.p), Ch.p))
                             ELSE None ]

\* family "Garamond", bold false, italic true, color_index 2, point_size 18.0
GaramondInfo ==
    [ family |-> Some(<<71, 97, 114, 97, 109, 111, 110, 100>>), bold |-> FALSE,
      italic |-> TRUE, color_index |-> Some(2), point_size |-> Some([num |-> 18, den |-> 1]) ]

\* C5: extract_format returns the parse of the first backslash-'f' block alone
\* (marker to next ';', split on '|'): the first field trimmed of whitespace,
\* then of braces, is the family unless empty; of the later fields, each read
\* without surrounding whitespace, b<int> sets bold iff non-zero, i<int> italic
\* iff non-zero, c<int> the color index, p<float> the point size, and any other
\* field changes nothing; without a marker every field is None/false; and the
\* Garamond example yields Garamond, false, true, 2, 18.0.
C5_FirstBlockParse ==
    fpc = "done" =>
        /\ info = ExpectedInfo(fmtInput)
        /\ fmtInput = GaramondExample => info = GaramondInfo

\* A first block with a family and a field has been parsed, and a second block
\* that follows it has been left alone.
C5_Witness ==
    /\ fpc = "done"
    /\ info.family = Some(<<71>>) /\ info.bold /\ ~info.italic /\ info.color_index = Some(2)
    /\ Cardinality({k \in 0..(Len(fmtInput) - 2) :
                       fmtInput[k + 1] = Ch.bslash /\ fmtInput[k + 2] = Ch.f}) = 2

\* ---------------------------------------------------------------- C6

\* The kinds of the objects of a list, nested ones included, each once.
RECURSIVE Flatten(_)
Flatten(f) ==
    IF f = <<>> THEN <<>>
    ELSE <<Head(f).kind>> \o Flatten(Head(f).objects) \o Flatten(Tail(f))

\* How many of the first n elements of a sequence lie in a set.
Among(seq, n, S) == Cardinality({ k \in 1..n : seq[k] \in S })

NamedTypes ==
    { "Circle", "Line", "Arc", "Spline", "Text", "Ellipse", "Polyline",
      "LwPolyline", "Solid", "Insert" }

SumCounts(c) ==
    c.circle_count + c.line_count + c.arc_count + c.spline_count + c.text_count
    + c.ellipse_count + c.polyline_count + c.lwpolyline_count + c.solid_count
    + c.block_count + c.other_count

SumStats(st) ==
    st.circles + st.lines + st.arcs + st.splines + st.texts + st.ellipses
    + st.polylines + st.lwpolylines + st.solids + st.blocks + st.unsupported

SumElmt(c) ==
    c.elmt_circles + c.elmt_lines + c.elmt_arcs + c.elmt_polygons
    + c.elmt_dynamic_texts + c.elmt_texts + c.elmt_groups

\* C6: the eleven source counters sum to the number of entities visited, each
\* entity counted by the one counter of its kind (unsupported for any other
\* kind); and the seven emitted counters sum to the number of objects in the
\* tree, each group and each object nested at any depth counted once under its
\* kind.
C6_CountConservation ==
    /\ SumCounts(counts) = visited
    /\ counts.circle_count = Among(entities, visited, {"Circle"})
    /\ counts.line_count = Among(entities, visited, {"Line"})
    /\ counts.arc_count = Among(entities, visited, {"Arc"})
    /\ counts.spline_count = Among(entities, visited, {"Spline"})
    /\ counts.text_count = Among(entities, visited, {"Text"})
    /\ counts.ellipse_count = Among(entities, visited, {"Ellipse"})
    /\ counts.polyline_count = Among(entities, visited, {"Polyline"})
    /\ counts.lwpolyline_count = Among(entities, visited, {"LwPolyline"})
    /\ counts.solid_count = Among(entities, visited, {"Solid"})
    /\ counts.block_count = Among(entities, visited, {"Insert"})
    /\ counts.other_count = Among(entities, visited, EntityTypes \ NamedTypes)
    /\ stats # None => SumStats(stats[1]) = Len(entities)
    /\ elmt # None =>
         LET kinds == Flatten(objects)
             n == Len(kinds)
         IN /\ SumElmt(elmt[1]) = n
            /\ elmt[1].elmt_circles = Among(kinds, n, {"Ellipse"})
            /\ elmt[1].elmt_lines = Among(kinds, n, {"Line"})
            /\ elmt[1].elmt_arcs = Among(kinds, n, {"Arc"})
            /\ elmt[1].elmt_polygons = Among(kinds, n, {"Polygon"})
            /\ elmt[1].elmt_dynamic_texts = Among(kinds, n, {"DynamicText"})
            /\ elmt[1].elmt_texts = Among(kinds, n, {"Text"})
            /\ elmt[1].elmt_groups = Among(kinds, n, {"Group"})

\* The drawing with a block in a block has been tallied: four entities, one of
\* them unsupported, and nine objects, two of them groups.
C6_Witness ==
    /\ tpc = "logged" /\ entities = NestedDrawing.entities
    /\ objects = NestedDrawing.objects
    /\ SumStats(stats[1]) = 4 /\ stats[1].unsupported = 1
    /\ SumElmt(elmt[1]) = 9 /\ elmt[1].elmt_groups = 2

\* ---------------------------------------------------------------- C7

\* A text object has been built from the source entity of the builder.
Built == dtext # None
Source == builder[1].text

\* r is an exact multiple of 360 degrees: as 360 = 2^3 * 45 and 2^42 leaves
\* 19 when divided by 45, v * 2^42 + off is one when 8 divides off and 45
\* divides 19 * v + off, and v * 2^63 is one when 45 divides v.
IsMultipleOf360(r) ==
    CASE r.class = "finite" -> r.v % (360 * Unit) = 0
      [] r.class = "big" -> r.off % 8 = 0 /\ (19 * r.v + r.off) % 45 = 0
      [] r.class = "huge" -> r.v % 45 = 0
      [] OTHER -> FALSE

\* C7 as stated: the stored rotation is 0 when the source rotation is an exact
\* multiple of 360 degrees and the source rotation minus 180 for every other
\* value, integer or not.
C7_RotationExactMultiples ==
    Built => dtext[1].rotation =
                 IF IsMultipleOf360(Source.rotation) THEN Deg(0)
                 ELSE Minus180(Source.rotation)

\* The magnitude of v / Unit degrees is at most half a degree below a multiple
\* of 360 or less than half a degree above it.
NearMultipleOf360(v) ==
    \E m \in 0..(Abs(v) \div (360 * Unit) + 1) :
        /\ 2 * (360 * m * Unit - Abs(v)) <= Unit
        /\ 2 * (Abs(v) - 360 * m * Unit) < Unit

\* C7, amended: for a source rotation of magnitude below 2^63 degrees the
\* stored rotation is 0 when the magnitude, rounded to the nearest whole degree
\* (halves away from zero), is a multiple of 360, which every exact multiple
\* of 360 is, and the source rotation minus 180 for every other value; a
\* rotation of magnitude 2^63 or more, an infinite one too, is stored as itself
\* minus 180 even when it is a multiple of 360, and NaN is stored as 0.
C7_RotationRoundedMultiples ==
    Built =>
        LET r == Source.rotation IN
        /\ r.class = "finite" =>
              /\ dtext[1].rotation =
                    IF NearMultipleOf360(r.v) THEN Deg(0) ELSE Deg(r.v - 180 * Unit)
              /\ IsMultipleOf360(r) => dtext[1].rotation = Deg(0)
        /\ r.class = "big" =>
              dtext[1].rotation =
                  IF IsMultipleOf360(r) THEN Deg(0) ELSE DegBigOff(r.v, r.off - 180)
        /\ r.class \in {"huge", "inf"} =>
              dtext[1].rotation = Minus180(r) /\ dtext[1].rotation # Deg(0)
        /\ r.class = "nan" => dtext[1].rotation = Deg(0)

\* A source rotation of 359.75 degrees has been stored as 0, or one of
\* 360 * 2^39 degrees has, or one of 360 * 2^60 degrees has not.
C7_Witness ==
    /\ Built
    /\ \/ Source.rotation = Deg(1439 * (Unit \div 4)) /\ dtext[1].rotation = Deg(0)
       \/ Source.rotation = DegBig(45) /\ dtext[1].rotation = Deg(0)
       \/ Source.rotation = DegHuge(45) /\ dtext[1].rotation = DegHuge(45)

\* ---------------------------------------------------------------- C8

\* The raw text of the source entity: overflow chunks first, then the value.
SourceRaw == Join(Source.extended_text) \o Source.value

\* C8: for each of the three source variants the text of the built object is
\* the normalized raw text (overflow chunks, then the primary text, for a
\* multi-line text; the value for a simple text and for a block attribute).
C8_AllVariantsNormalized ==
    Built => dtext[1].text = normalize_mtext(SourceRaw)

\* ---------------------------------------------------------------- C9

\* The value of the attribute of that name on a node.
Attr(node, name) ==
    LET k == CHOOSE k \in 1..Len(node.attributes) : node.attributes[k][1] = name
    IN node.attributes[k][2]

\* x + 0.5 - point_size/8 - 4.05, in units.
XLeft(t) == t.x + Unit \div 2 - t.font.point_size \div 8 - (Unit * 81) \div 20

\* The reference width above 2.0, else graphemes * point_size * 0.75.
EstimatedWidth(t) ==
    IF t.reference_rectangle_width > 2 * Unit THEN t.reference_rectangle_width
    ELSE (3 * GraphemeCount(t.text) * t.font.point_size) \div 4

\* C9: the x attribute emitted for a text object is x_left for Left alignment,
\* x_left - w/2 for Center and x_left - w for Right, with x_left = x + 0.5 -
\* point_size/8 - 4.05 and w the reference width when it exceeds 2.0 and
\* grapheme_count(text) * point_size * 0.75 otherwise.
C9_AlignedX ==
    xml # None =>
        LET t == xmlOf[1] IN
        /\ t.h_alignment = "Left"
             => Attr(xml[1], "x") = Formatted("two_dec", XLeft(t))
        /\ t.h_alignment = "Center"
             => Attr(xml[1], "x") = Formatted("two_dec", XLeft(t) - EstimatedWidth(t) \div 2)
        /\ t.h_alignment = "Right"
             => Attr(xml[1], "x") = Formatted("two_dec", XLeft(t) - EstimatedWidth(t))

\* A centered, rescaled text of three clusters in seven characters (a Hangul
\* syllable in two, a joined pair of emoji, a flag), its width guessed, has
\* been emitted.
C9_Witness ==
    /\ xml # None /\ xmlOf = dtext /\ scales = 1
    /\ dtext[1].h_alignment = "Center"
    /\ dtext[1].text = <<4352, 4449, 128104, 8205, 128105, 127464, 127469>>
    /\ GraphemeCount(dtext[1].text) = 3
    /\ dtext[1].reference_rectangle_width <= 2 * Unit
    /\ dtext[1].font.point_size = 6 * Unit

\* --------------------------------------------------------------- C10

\* The color index of the format extracted for the source entity: that of the
\* first block of its raw text, and none for a block attribute.
SourceColorIndex ==
    IF Source.kind = "Attrib" THEN None
    ELSE ExpectedInfo(SourceRaw).color_index

\* C10: a color index strictly between 0 and 256 in the extracted format gives
\* the conversion of that index and the builder's color is ignored; otherwise
\* the color is the one handed to the builder, or black when none was; a block
\* attribute has no extracted format.
C10_ColorResolution ==
    Built =>
        LET idx == SourceColorIndex IN
        IF idx # None /\ idx[1] > 0 /\ idx[1] < 256
        THEN dtext[1].color = HexColorFromU32(idx[1])
        ELSE IF builder[1].color # None
             THEN dtext[1].color = builder[1].color[1]
             ELSE dtext[1].color = HexColorBlack

\* A multi-line text whose format carries the index 7 was built with a builder
\* that had been handed a color.
C10_Witness ==
    /\ Built /\ Source.kind = "MText" /\ builder[1].color # None
    /\ dtext[1].color = HexColorFromU32(7)

\* --------------------------------------------------------------- C11

\* The product of the horizontal (k = 1) or vertical (k = 2) factors applied.
RECURSIVE NumProduct(_, _)
NumProduct(fs, k) == IF fs = <<>> THEN 1 ELSE Head(fs)[k].num * NumProduct(Tail(fs), k)
RECURSIVE DenProduct(_, _)
DenProduct(fs, k) == IF fs = <<>> THEN 1 ELSE Head(fs)[k].den * DenProduct(Tail(fs), k)

\* C11: scale multiplies x by fx, y by fy and the point size by fx and leaves
\* every other field as it was; after any scale calls, bound queries and XML
\* emissions the original text height and the uuid are those of construction,
\* and after a single scale the point size is the original text height times fx.
C11_ScaleFrame ==
    Built =>
        LET t == dtext[1]
            b == built[1]
        IN /\ [t EXCEPT !.x = b.x, !.y = b.y, !.font.point_size = b.font.point_size] = b
           /\ t.original_text_height = b.original_text_height /\ t.uuid = b.uuid
           /\ t.x * DenProduct(applied, 1) = b.x * NumProduct(applied, 1)
           /\ t.y * DenProduct(applied, 2) = b.y * NumProduct(applied, 2)
           /\ t.font.point_size * DenProduct(applied, 1)
                = b.font.point_size * NumProduct(applied, 1)
           /\ Len(applied) = 1 =>
                t.font.point_size * applied[1][1].den
                  = t.original_text_height * applied[1][1].num

\* A text of height 12 was scaled by (1/2, 3), its bounds were asked, it was
\* scaled by (1/2, 3) again and emitted: x is a quarter and y nine times what
\* it was built with, the point size is 3 and the original height still 12.
C11_Witness ==
    /\ Built /\ Len(applied) = 2
    /\ \A k \in 1..2 : applied[k] = <<[num |-> 1, den |-> 2], [num |-> 3, den |-> 1]>>
    /\ bounds # None /\ bounds[1].left_bound = 2 * dtext[1].x /\ xmlOf = dtext
    /\ 4 * dtext[1].x = built[1].x /\ dtext[1].y = 9 * built[1].y
    /\ dtext[1].original_text_height = 12 * Unit
    /\ built[1].font.point_size = 12 * Unit
    /\ dtext[1].font.point_size = 3 * Unit

\* --------------------------------------------------------------- C12

\* The iteration the normalizer is about to make, when it is about to make one.
NormAbout == pc = "loop" /\ i < Len(bytes)
\* The iteration the extractor is about to make, when it is about to make one.
FmtAbout == fpc = "loop" /\ fi + 2 < Len(Utf8(fmtInput))

\* Every iteration moves the cursor forward, not past the end, and reads no
\* byte at an index beyond the last.
C12_Safe ==
    /\ NormAbout =>
         /\ ScanStep(bytes, i, out).i > i
         /\ ScanStep(bytes, i, out).i <= Len(bytes)
         /\ \A r \in ScanReads(bytes, i) : 0 <= r /\ r < Len(bytes)
    /\ rule # "none" => at < i /\ i <= Len(bytes)
    /\ FmtAbout =>
         LET bs == Utf8(fmtInput) IN
         /\ ExtractStep(bs, fi, info).i > fi
         /\ ExtractStep(bs, fi, info).i <= Len(bs)
         /\ \A r \in ExtractReads(bs, fi) : 0 <= r /\ r < Len(bs)

\* C12: normalize and extract_format are total: on every input each call
\* returns, every loop iteration moves its cursor strictly forward, and no byte
\* is read at an index beyond the end of the input.
C12_Total ==
    /\ []C12_Safe
    /\ <>(pc = "done" \/ fpc = "done")

\* The normalizer has returned on \f\ : an unterminated code restored, then a
\* backslash that ends the input.
C12_Witness ==
    /\ pc = "done" /\ input = <<Ch.bslash, Ch.f, Ch.bslash>>
    /\ rule = "lone" /\ i = Len(bytes) /\ out = input

\* --------------------------------------------------------------- C13

\* The names of the attributes of a node, in the order they were added.
AttrNames(node) == [k \in 1..Len(node.attributes) |-> node.attributes[k][1]]

Has(names, n) == \E k \in 1..Len(names) : names[k] = n

Mandatory ==
    << "x", "y", "z", "rotation", "uuid", "font", "Halignment", "Valignment",
       "text_from", "frame", "text_width", "color" >>

\* C13: the node of a text object has info_name exactly when the object's
\* info_name is present and keep_visual_rotation exactly when the flag is true;
\* the twelve mandatory attributes come first, in their fixed order, no
\* attribute is there twice and none besides these, and the one child carries
\* the text.
C13_OptionalAttributes ==
    xml # None =>
        LET t == xmlOf[1]
            names == AttrNames(xml[1])
        IN /\ Len(names) >= 12 /\ SubSeq(names, 1, 12) = Mandatory
           /\ Has(names, "info_name") <=> t.info_name # None
           /\ Has(names, "keep_visual_rotation") <=> t.keep_visual_rotation
           /\ Len(names) = 12 + (IF t.info_name # None THEN 1 ELSE 0)
                              + (IF t.keep_visual_rotation THEN 1 ELSE 0)
           /\ \A k \in 13..Len(names) : names[k] \in {"info_name", "keep_visual_rotation"}
           /\ t.info_name # None =>
                Attr(xml[1], "info_name") = Formatted("display", t.info_name[1])
           /\ Len(xml[1].children) = 1
           /\ xml[1].children[1] = [name |-> "text", text |-> t.text]

\* A text with a name and without the flag has been emitted: thirteen
\* attributes, the last of them info_name.
C13_Witness ==
    /\ xml # None /\ xmlOf[1].info_name = Some("label")
    /\ ~xmlOf[1].keep_visual_rotation
    /\ Len(xml[1].attributes) = 13 /\ xml[1].attributes[13][1] = "info_name"

\* --------------------------------------------------------------- C14

\* convert_dxf_file has returned.
Returned == tpc = "returned" /\ result # None

\* C14: when the file does not load, the call returns an error whose message
\* names the input, and at no moment of that call, before the load or after
\* it, has the output file or the log file been created or written.
C14_LoadFailureLeavesNothing ==
    /\ tpc = "start" => fsys = <<>> /\ log = <<>> /\ result = None
    /\ ~loads /\ tpc # "idle" =>
         /\ fsys = <<>> /\ log = <<>>
         /\ tpc \in {"start", "returned"}
         /\ Returned =>
              /\ ~result[1].ok /\ ~result[1].success
              /\ result[1].message.of = file.stem
              /\ result[1].stats = None /\ result[1].xml_content = None

\* The call on a file without extension that does not load has returned the
\* error naming it, with verbose unset.
C14_Witness ==
    /\ Returned /\ ~loads /\ ~verbose /\ file.path = "noext"
    /\ result[1] = LoadError(file) /\ fsys = <<>>

\* --------------------------------------------------------------- C15

IsBrace(c) == c = Ch.lbrace \/ c = Ch.rbrace

\* C15: the output of normalize holds no '{' and no '}', at its return and at
\* any moment of the scan, whatever precedes the brace in the input: an escaped
\* backslash, a formatting code that was restored, or anything else.
C15_NoBraces ==
    /\ \A k \in 1..Len(out) : ~IsBrace(out[k])
    /\ rule = "brace" => out = outAt /\ i = at + 1
    /\ pc = "done" /\ pass = 1 => out = normalize_mtext(input)

\* \\{\X}a has been normalized to \\Xa: one brace came directly behind the
\* escaped backslash, the other ended the code \X, which was restored.
C15_Witness ==
    /\ pc = "done" /\ pass = 1 /\ input = BracesExample
    /\ out = <<92, 92, 88, 97>>

\* --------------------------------------------------------------- C16

\* The whole number of degrees nearest to the magnitude of v / Unit degrees,
\* the greater one when it lies halfway between two.
NearestDegree(v) ==
    CHOOSE n \in 0..(Abs(v) \div Unit + 1) :
        /\ (2 * n - 1) * Unit <= 2 * Abs(v)
        /\ 2 * Abs(v) < (2 * n + 1) * Unit

\* The magnitude of r rounded to the nearest whole degree is a multiple of
\* 360.  A value of 2^42 degrees and more is whole already; an infinite
\* magnitude and NaN round to themselves, which are no multiples.
RoundsToMultipleOf360(r) ==
    CASE r.class = "finite" -> NearestDegree(r.v) % 360 = 0
      [] r.class \in {"big", "huge"} -> IsMultipleOf360(r)
      [] OTHER -> FALSE

\* C16: the magnitude of the source rotation is rounded to the nearest whole
\* degree; the stored rotation is the unrounded source rotation minus 180 when
\* that degree is no multiple of 360 and 0 when it is, so 0.4 and 359.6 are
\* stored as 0.
C16_RotationRounding ==
    Built =>
        /\ ~RoundsToMultipleOf360(Source.rotation)
             => dtext[1].rotation = Minus180(Source.rotation)
        /\ RoundsToMultipleOf360(Source.rotation) => dtext[1].rotation = Deg(0)
        /\ Source.rotation \in { Deg((2 * Unit) \div 5), Deg(359 * Unit + (3 * Unit) \div 5) }
             => dtext[1].rotation = Deg(0)

\* --------------------------------------------------------------- C17

\* The objects of a tree, nested ones included, as kind and place.
RECURSIVE NodesOf(_)
NodesOf(f) ==
    UNION { { [kind |-> f[k].kind, id |-> f[k].id] } \cup NodesOf(f[k].objects) :
              k \in 1..Len(f) }

TextNodes == { n \in NodesOf(objects) : n.kind \in {"DynamicText", "Text"} }

\* Place p comes before place q in a depth-first walk that visits an object
\* before the objects in it and these before its later siblings.
Before(p, q) ==
    \/ Len(p) < Len(q) /\ SubSeq(q, 1, Len(p)) = p
    \/ \E k \in 1..Len(p) :
         /\ k <= Len(q) /\ SubSeq(p, 1, k - 1) = SubSeq(q, 1, k - 1)
         /\ p[k] < q[k]

IsTextBlock(e) == e.section = "text"
Blocks == SelectSeq(log, IsTextBlock)

\* The log has been written to its end.
LogComplete ==
    \E k \in 1..Len(fsys) : fsys[k] = [op |-> "write", file |-> "log", ok |-> TRUE]

\* C17: the complete log holds one block for each text object of the tree,
\* dynamic or static, at any depth, and none for any other object; the blocks
\* come in depth-first pre-order and are numbered 1, 2, 3, ...; the total of
\* the footer is the emitted dynamic-text count plus the static-text count;
\* and the sections come as header, source tally, emitted tally, the warning
\* exactly when the unsupported count is positive, then the text blocks.
C17_LogTextBlocks ==
    LogComplete =>
        LET w == IF stats[1].unsupported > 0 THEN 1 ELSE 0
            last == Len(log)
        IN /\ Len(Blocks) = Cardinality(TextNodes)
           /\ \A k \in 1..Len(Blocks) :
                /\ Blocks[k].n = k
                /\ [kind |-> Blocks[k].variant, id |-> Blocks[k].object] \in TextNodes
           /\ \A j, k \in 1..Len(Blocks) :
                j < k => Before(Blocks[j].object, Blocks[k].object)
           /\ log[last].section = "footer"
           /\ log[last].n = elmt[1].elmt_dynamic_texts + elmt[1].elmt_texts
           /\ log[1].section = "header" /\ log[2].section = "source"
           /\ log[3].section = "emitted"
           /\ w = 1 => log[4].section = "warning" /\ log[4].n = stats[1].unsupported
           /\ log[4 + w].section = "detail"
           /\ \A k \in (5 + w)..(last - 1) : log[k].section = "text"
           /\ last = 5 + w + Len(Blocks)

\* The log of the drawing with a block in a block is complete: the static text
\* in the first group is block 1, the dynamic text behind the group block 2,
\* and the warning is there for the unsupported multi-line text.
C17_Witness ==
    /\ LogComplete /\ entities = NestedDrawing.entities
    /\ Len(Blocks) = 2 /\ Len(log) = 8
    /\ Blocks[1].object = <<1, 1>> /\ Blocks[1].variant = "Text"
    /\ Blocks[2].object = <<2>> /\ Blocks[2].variant = "DynamicText"
    /\ log[4].section = "warning"

\* --------------------------------------------------------------- C18

\* The four file operations of the delivery to files, all of them done.
FileDelivery ==
    << [op |-> "create", file |-> "elmt", ok |-> TRUE],
       [op |-> "write", file |-> "elmt", ok |-> TRUE],
       [op |-> "create", file |-> "log", ok |-> TRUE],
       [op |-> "write", file |-> "log", ok |-> TRUE] >>

\* C18: a successful conversion delivers in exactly one way: with verbose set
\* the XML text is in xml_content and no file was created or written; with
\* verbose unset xml_content is None and the XML file was written, then the
\* log, both to the end; a failed write never ends in success; and a
\* successful result has success = true and carries the stats.
C18_OneDeliveryPath ==
    /\ verbose => fsys = <<>> /\ log = <<>>
    /\ Returned /\ result[1].ok =>
         /\ result[1].success /\ result[1].stats # None /\ result[1].stats = stats
         /\ verbose => result[1].xml_content # None /\ fsys = <<>> /\ log = <<>>
         /\ ~verbose => result[1].xml_content = None /\ fsys = FileDelivery
         /\ (result[1].xml_content # None) # (fsys # <<>>)
    /\ Returned /\ (\E k \in 1..Len(fsys) : ~fsys[k].ok) => ~result[1].ok
    /\ Returned /\ loads /\ ~verbose /\ fsys # FileDelivery => ~result[1].ok

\* The conversion of the scenario drawing without verbose has returned
\* success after writing the XML file and then the log.
C18_Witness ==
    /\ Returned /\ result[1].ok /\ ~verbose
    /\ entities = ScenarioDrawing.entities
    /\ fsys = FileDelivery /\ result[1].xml_content = None
    /\ result[1].stats[1].circles = 2 /\ log[Len(log)].section = "footer"

====
